---- MODULE Spec2Model ----
(***************************************************************************)
(* LLM Context Exporter: the webview's tri-state selection tree            *)
(* (media/main.js), the export pipeline and the clipboard dispatcher       *)
(* (ExportService) and the extension-side export handler                   *)
(* (WebviewProvider.handleGenerateExport).                                 *)
(***************************************************************************)
EXTENDS Integers, Sequences, FiniteSets, TLC

VARIABLES
    workspaceTree,   \* main.js:5    path -> node record of the webview's tree
    selectedPaths,   \* main.js:6    the webview's Set of selected paths
    lastOp,          \* history: the handler that ran last, with its inputs
    run,             \* the export run in progress (ExportService / WebviewProvider)
    call,            \* the last call of a service function: its arguments and its answer
    provider,        \* part_000:34-36  WebviewProvider: its tree, its selectedPaths, its messages
    removed          \* the paths deleted from the workspace since the session began

vars == <<workspaceTree, selectedPaths, lastOp, run, call, provider, removed>>

Null == "<null>"

(***************************************************************************)
(* The host file system the tree is built from.  Children are listed the   *)
(* way getDirectoryChildren sorts them: directories first, then by name.   *)
(***************************************************************************)
Root == "."

Dirs == {".", "a", "a/c", "b", "e"}

Files == {"a/c/y", "a/x", "b/z"}

Paths == Dirs \cup Files

HostKids(p) ==
    CASE p = "."   -> <<"a", "b", "e">>
      [] p = "a"   -> <<"a/c", "a/x">>
      [] p = "a/c" -> <<"a/c/y">>
      [] p = "b"   -> <<"b/z">>
      [] OTHER     -> <<>>

IsDirectory(p) == p \in Dirs

Range(s) == {s[i] : i \in 1..Len(s)}

(***************************************************************************)
(* A node as getDirectoryChildren creates it in lazy mode: nothing         *)
(* selected, a directory's children empty until loaded on demand.          *)
(***************************************************************************)
LazyNode ==
    [selected |-> FALSE, indeterminate |-> FALSE, expanded |-> FALSE, children |-> <<>>]

(***************************************************************************)
(* A node as getWorkspaceTree builds it: buildTreeFromUri is called with   *)
(* lazyLoad = false, so every directory comes with its children, expanded. *)
(***************************************************************************)
EagerNode(p) ==
    [selected |-> FALSE, indeterminate |-> FALSE,
     expanded |-> IsDirectory(p), children |-> HostKids(p)]

getWorkspaceTree == [p \in Paths |-> EagerNode(p)]

RECURSIVE findNodeByPath(_, _, _)
findNodeByPath(tree, nodes, targetPath) ==
    IF nodes = <<>> THEN Null
    ELSE LET node == Head(nodes) IN
         IF node = targetPath THEN node
         ELSE LET found == findNodeByPath(tree, tree[node].children, targetPath) IN
              IF found # Null THEN found
              ELSE findNodeByPath(tree, Tail(nodes), targetPath)

RECURSIVE findParentNode(_, _, _)
findParentNode(tree, nodes, childPath) ==
    IF nodes = <<>> THEN Null
    ELSE LET node == Head(nodes) IN
         IF childPath \in Range(tree[node].children) THEN node
         ELSE LET found == findParentNode(tree, tree[node].children, childPath) IN
              IF found # Null THEN found
              ELSE findParentNode(tree, Tail(nodes), childPath)

InTree(tree, p) == findNodeByPath(tree, <<Root>>, p) # Null

(***************************************************************************)
(* The handlers thread a record st = [tree, sel] through their calls:      *)
(* the tree's nodes and the selectedPaths set, both mutated in place in    *)
(* the source.                                                             *)
(***************************************************************************)
SetFlags(st, p, selected, indeterminate) ==
    [st EXCEPT !.tree[p].selected = selected, !.tree[p].indeterminate = indeterminate]

(* updateSelectionState: the path is added to or deleted from selectedPaths and
   an updateSelection message is posted to the extension (st.out) *)
updateSelectionState(st, p, selected, indeterminate) ==
    [st EXCEPT !.sel = IF selected THEN @ \cup {p} ELSE @ \ {p},
               !.out = Append(@, [path |-> p, selected |-> selected,
                                  indeterminate |-> indeterminate])]

RECURSIVE updateChildSelection(_, _, _)
RECURSIVE updateChildList(_, _, _)
updateChildList(st, kids, selected) ==
    IF kids = <<>> THEN st
    ELSE LET child == Head(kids)
             s1 == updateSelectionState(SetFlags(st, child, selected, FALSE),
                                        child, selected, FALSE)
             s2 == IF IsDirectory(child) THEN updateChildSelection(s1, child, selected) ELSE s1
         IN updateChildList(s2, Tail(kids), selected)

updateChildSelection(st, node, selected) ==
    updateChildList(st, st.tree[node].children, selected)

(* Aggregate with a child's indeterminate flag left out of the "none" test *)
Aggregate_IgnoresIndeterminate(tree, children) ==
    LET allChildrenSelected == \A i \in 1..Len(children) : tree[children[i]].selected
        noChildrenSelected == \A i \in 1..Len(children) : ~tree[children[i]].selected
    IN IF allChildrenSelected THEN [selected |-> TRUE, indeterminate |-> FALSE]
       ELSE IF noChildrenSelected THEN [selected |-> FALSE, indeterminate |-> FALSE]
       ELSE [selected |-> FALSE, indeterminate |-> TRUE]

(* Aggregate with a partly selected parent shown as selected as well *)
Aggregate_SelectedWhenPartial(tree, children) ==
    LET allChildrenSelected == \A i \in 1..Len(children) : tree[children[i]].selected
        noChildrenSelected == \A i \in 1..Len(children) :
            ~tree[children[i]].selected /\ ~tree[children[i]].indeterminate
    IN IF allChildrenSelected THEN [selected |-> TRUE, indeterminate |-> FALSE]
       ELSE IF noChildrenSelected THEN [selected |-> FALSE, indeterminate |-> FALSE]
       ELSE [selected |-> TRUE, indeterminate |-> TRUE]

(***************************************************************************)
(* The aggregate updateParentSelection computes from a child list.         *)
(***************************************************************************)
Aggregate(tree, children) ==
    LET allChildrenSelected == \A i \in 1..Len(children) : tree[children[i]].selected
        noChildrenSelected == \A i \in 1..Len(children) :
            ~tree[children[i]].selected /\ ~tree[children[i]].indeterminate
        someChildrenSelected == \E i \in 1..Len(children) :
            tree[children[i]].selected \/ tree[children[i]].indeterminate
    IN IF allChildrenSelected THEN [selected |-> TRUE, indeterminate |-> FALSE]
       ELSE IF noChildrenSelected THEN [selected |-> FALSE, indeterminate |-> FALSE]
       ELSE IF someChildrenSelected THEN [selected |-> FALSE, indeterminate |-> TRUE]
       ELSE [selected |-> FALSE, indeterminate |-> FALSE]

(* the recomputation started at the node itself, a directory being given the
   aggregate of its own children first *)
RECURSIVE updateParentSelection_FromNode(_, _)
updateParentSelection_FromNode(st, node) ==
    IF node = Null THEN st
    ELSE LET agg == Aggregate(st.tree, st.tree[node].children)
             s1 == IF IsDirectory(node)
                   THEN updateSelectionState(
                            SetFlags(st, node, agg.selected, agg.indeterminate),
                            node, agg.selected, agg.indeterminate)
                   ELSE st
         IN updateParentSelection_FromNode(s1, findParentNode(s1.tree, <<Root>>, node))

RECURSIVE updateParentSelection(_, _)
updateParentSelection(st, node) ==
    LET parentNode == findParentNode(st.tree, <<Root>>, node) IN
    IF parentNode = Null THEN st
    ELSE LET agg == Aggregate(st.tree, st.tree[parentNode].children)
             s1 == updateSelectionState(
                       SetFlags(st, parentNode, agg.selected, agg.indeterminate),
                       parentNode, agg.selected, agg.indeterminate)
         IN updateParentSelection(s1, parentNode)

(* the node's flag flipped instead of set to isChecked *)
handleTreeNodeChange_Flips(st, path, isChecked) ==
    LET node == findNodeByPath(st.tree, <<Root>>, path) IN
    IF node = Null THEN st
    ELSE LET flipped == ~st.tree[node].selected
             s1 == updateSelectionState(SetFlags(st, node, flipped, FALSE),
                                        node, flipped, FALSE)
             s2 == IF IsDirectory(node) THEN updateChildSelection(s1, node, flipped) ELSE s1
         IN updateParentSelection(s2, node)

(***************************************************************************)
(* handleTreeNodeChange: the checkbox of the node at `path` is set to      *)
(* isChecked.                                                              *)
(***************************************************************************)
handleTreeNodeChange(st, path, isChecked) ==
    LET node == findNodeByPath(st.tree, <<Root>>, path) IN
    IF node = Null THEN st
    ELSE LET s1 == updateSelectionState(SetFlags(st, node, isChecked, FALSE),
                                        node, isChecked, FALSE)
             s2 == IF IsDirectory(node) THEN updateChildSelection(s1, node, isChecked) ELSE s1
         IN updateParentSelection(s2, node)

(***************************************************************************)
(* directoryChildrenResponse.  The payload's children are fresh nodes of   *)
(* loadDirectoryChildren (lazy mode, selected = false); updateNodeChildren *)
(* walks the tree in pre-order looking for targetPath.  w carries the      *)
(* handler state st, the selected flag the payload's children hold so far  *)
(* (kidSel) and whether the target was found.                              *)
(***************************************************************************)
RECURSIVE HostDescendants(_)
HostDescendants(p) ==
    Range(HostKids(p)) \cup UNION {HostDescendants(c) : c \in Range(HostKids(p))}

AttachChildren(st, target, children, kidSel) ==
    LET below == UNION {HostDescendants(c) : c \in Range(children)} IN
    [st EXCEPT !.tree = [p \in Paths |->
        IF p = target THEN [st.tree[p] EXCEPT !.children = children, !.expanded = TRUE]
        ELSE IF p \in Range(children) THEN [LazyNode EXCEPT !.selected = kidSel]
        ELSE IF p \in below THEN LazyNode
        ELSE st.tree[p]]]

InheritSelection(st, node, children) ==
    [st EXCEPT !.sel = IF st.tree[node].selected THEN @ \cup Range(children)
                       ELSE @ \ Range(children)]

RECURSIVE updateNodeChildren(_, _, _, _)
updateNodeChildren(w, nodes, targetPath, children) ==
    IF nodes = <<>> THEN [w EXCEPT !.found = FALSE]
    ELSE LET node == Head(nodes) IN
         IF node = targetPath
         THEN [w EXCEPT !.found = TRUE,
                        !.st = AttachChildren(w.st, node, children, w.kidSel)]
         ELSE IF IsDirectory(node)
         THEN LET s1 == InheritSelection(w.st, node, children)
                  s2 == updateParentSelection(s1, node)
                  r == updateNodeChildren(
                           [st |-> s2, kidSel |-> w.st.tree[node].selected, found |-> FALSE],
                           s2.tree[node].children, targetPath, children)
              IN IF r.found THEN r
                 ELSE updateNodeChildren(r, Tail(nodes), targetPath, children)
         ELSE updateNodeChildren(w, Tail(nodes), targetPath, children)

handleDirectoryChildrenResponse(st, path) ==
    updateNodeChildren([st |-> st, kidSel |-> FALSE, found |-> FALSE],
                       <<Root>>, path, HostKids(path)).st

(***************************************************************************)
(* workspaceTreeResponse (a refresh): the tree is replaced by a new        *)
(* snapshot; selectedPaths is left as it is.                               *)
(***************************************************************************)
handleWorkspaceTreeResponse(st, tree) == [st EXCEPT !.tree = tree]

(***************************************************************************)
(* selectAll and deselectAll.  getAllVisibleNodes walks the tree in        *)
(* pre-order and goes below a node only if it is expanded; handleSelectAll *)
(* adds the files among them to selectedPaths, handleDeselectAll clears    *)
(* the set.  Neither writes a node's flags nor posts a message.            *)
(***************************************************************************)
RECURSIVE getAllVisibleNodes(_, _)
getAllVisibleNodes(tree, nodes) ==
    IF nodes = <<>> THEN <<>>
    ELSE LET node == Head(nodes) IN
         <<node>>
         \o (IF tree[node].expanded THEN getAllVisibleNodes(tree, tree[node].children)
             ELSE <<>>)
         \o getAllVisibleNodes(tree, Tail(nodes))

handleSelectAll(st) ==
    LET allNodes == getAllVisibleNodes(st.tree, <<Root>>) IN
    [st EXCEPT !.sel = @ \cup {node \in Range(allNodes) : ~IsDirectory(node)}]

handleDeselectAll(st) == [st EXCEPT !.sel = {}]

(***************************************************************************)
(* Paths and patterns of the export side are sequences of characters.      *)
(***************************************************************************)
P_ts == <<"m", ".", "t", "s">>

P_log == <<"a", ".", "l", "o", "g">>

P_png == <<"i", ".", "p", "n", "g">>

P_dir == <<"d">>

(* a file in the directory P_dir *)
P_sub == <<"d", "/", "n", ".", "t", "s">>

ExportPaths == {P_ts, P_log, P_png, P_dir, P_sub}

HostIsDirectory(p) == p = P_dir

G_log == <<"*", ".", "l", "o", "g">>

G_ts == <<"*", ".", "t", "s">>

(***************************************************************************)
(* matchesPattern: the glob is rewritten into a regular expression by four *)
(* global replacements applied in turn ('.' escaped, '**' to '.*', every   *)
(* '*' to '[^/]*', '?' to '[^/]'), then tested anchored.  The third        *)
(* rewrite also hits the '*' the second one wrote, so '**' ends up as      *)
(* '.[^/]*'.  Tokens: <<"lit", c>>, <<"any">> ('.'), <<"seg*">> ('[^/]*'), *)
(* <<"seg1">> ('[^/]').                                                    *)
(***************************************************************************)
RECURSIVE GlobToRegex(_)
GlobToRegex(g) ==
    IF g = <<>> THEN <<>>
    ELSE IF Len(g) >= 2 /\ g[1] = "*" /\ g[2] = "*"
         THEN <<<<"any">>, <<"seg*">>>> \o GlobToRegex(SubSeq(g, 3, Len(g)))
    ELSE IF g[1] = "*" THEN <<<<"seg*">>>> \o GlobToRegex(Tail(g))
    ELSE IF g[1] = "?" THEN <<<<"seg1">>>> \o GlobToRegex(Tail(g))
    ELSE <<<<"lit", g[1]>>>> \o GlobToRegex(Tail(g))

RECURSIVE RegexTest(_, _)
RegexTest(re, str) ==
    IF re = <<>> THEN str = <<>>
    ELSE LET t == Head(re) IN
         CASE t[1] = "lit"  -> str # <<>> /\ str[1] = t[2] /\ RegexTest(Tail(re), Tail(str))
           [] t[1] = "any"  -> str # <<>> /\ RegexTest(Tail(re), Tail(str))
           [] t[1] = "seg1" -> str # <<>> /\ str[1] # "/" /\ RegexTest(Tail(re), Tail(str))
           [] t[1] = "seg*" -> \/ RegexTest(Tail(re), str)
                               \/ str # <<>> /\ str[1] # "/" /\ RegexTest(re, Tail(str))

matchesPattern(filePath, pattern) == RegexTest(GlobToRegex(pattern), filePath)

matchesPatterns(filePath, patterns) ==
    \E i \in 1..Len(patterns) : matchesPattern(filePath, patterns[i])

(***************************************************************************)
(* isBinaryFile: path.extname, lower-cased (the model's paths are lower    *)
(* case), looked up in BINARY_EXTENSIONS.  Of that list the model keeps    *)
(* the image extensions of its paths' alphabet.                            *)
(***************************************************************************)
BaseName(p) ==
    LET slashes == {i \in 1..Len(p) : p[i] = "/"}
        last == IF slashes = {} THEN 0 ELSE CHOOSE i \in slashes : \A j \in slashes : j <= i
    IN SubSeq(p, last + 1, Len(p))

ExtName(p) ==
    LET b == BaseName(p)
        dots == {i \in 2..Len(b) : b[i] = "."}
        last == IF dots = {} THEN 0 ELSE CHOOSE i \in dots : \A j \in dots : j <= i
    IN IF last = 0 THEN <<>> ELSE SubSeq(b, last, Len(b))

BINARY_EXTENSIONS ==
    {<<".", "p", "n", "g">>, <<".", "g", "i", "f">>, <<".", "j", "p", "g">>}

isBinaryFile(filePath) == ExtName(filePath) \in BINARY_EXTENSIONS

(***************************************************************************)
(* filterValidFiles: directories and binary files are skipped, the order   *)
(* of selectedPaths is kept.  The configuration is not a parameter.        *)
(***************************************************************************)
(* the check of the extension left out *)
ValidFile_KeepsBinary(filePath) == ~HostIsDirectory(filePath)

ValidFile(filePath) == ~HostIsDirectory(filePath) /\ ~isBinaryFile(filePath)

(* a selected directory replaced by the files the host has in it *)
RECURSIVE filterValidFiles_ExpandsDirectories(_)
filterValidFiles_ExpandsDirectories(paths) ==
    IF paths = <<>> THEN <<>>
    ELSE LET filePath == Head(paths) IN
         (IF filePath = P_dir THEN <<P_sub>>
          ELSE IF ValidFile(filePath) THEN <<filePath>> ELSE <<>>)
         \o filterValidFiles_ExpandsDirectories(Tail(paths))

(* the valid files collected last to first *)
filterValidFiles_Reversed(paths) ==
    LET validFiles == SelectSeq(paths, ValidFile) IN
    [i \in 1..Len(validFiles) |-> validFiles[Len(validFiles) + 1 - i]]

filterValidFiles(paths) == SelectSeq(paths, ValidFile)

(***************************************************************************)
(* The export run.  Bounds and inputs.                                     *)
(***************************************************************************)
MaxSelected == 2

RECURSIVE DistinctSeqs(_, _)
DistinctSeqs(S, n) ==
    IF n = 0 THEN {<<>>}
    ELSE LET shorter == DistinctSeqs(S, n - 1) IN
         shorter \cup {Append(q, x) : q \in {r \in shorter : Len(r) = n - 1}, x \in S}

SelectedLists ==
    {q \in DistinctSeqs(ExportPaths, MaxSelected) :
        \A i, j \in 1..Len(q) : i # j => q[i] # q[j]}

DefaultMaxFileSize == 1024 * 1024

PatternChoices ==
    {[excludePatterns |-> <<>>, includePatterns |-> <<>>],
     [excludePatterns |-> <<G_log>>, includePatterns |-> <<>>],
     [excludePatterns |-> <<>>, includePatterns |-> <<G_ts>>]}

DefaultTruncateThreshold == 10 * 1024 * 1024

(* every pattern choice in md, txt without patterns *)
Configurations ==
    {c \in [format : {"md", "txt"}, outputMethod : {"file", "clipboard"},
            includeDirectoryStructure : BOOLEAN, maxFileSize : {DefaultMaxFileSize},
            excludePatterns : {pc.excludePatterns : pc \in PatternChoices},
            includePatterns : {pc.includePatterns : pc \in PatternChoices},
            truncateThreshold : {DefaultTruncateThreshold}] :
        /\ [excludePatterns |-> c.excludePatterns, includePatterns |-> c.includePatterns]
               \in PatternChoices
        /\ c.format = "txt" => c.excludePatterns = <<>> /\ c.includePatterns = <<>>}

(***************************************************************************)
(* A configuration as it arrives (Partial<ExportConfiguration>, unchecked): *)
(* every field holds a JavaScript value, tagged with its type.             *)
(***************************************************************************)
Undefined == [t |-> "undefined", s |-> "", n |-> 0, a |-> <<>>]

Str(x) == [t |-> "string", s |-> x, n |-> 0, a |-> <<>>]

Num(x) == [t |-> "number", s |-> "", n |-> x, a |-> <<>>]

Bool(b) == [t |-> "boolean", s |-> "", n |-> IF b THEN 1 ELSE 0, a |-> <<>>]

Arr(x) == [t |-> "array", s |-> "", n |-> 0, a |-> x]

(* the truthiness of a value, as !v and v || d and v && w use it *)
Truthy(v) ==
    CASE v.t = "undefined" -> FALSE
      [] v.t = "string"    -> v.s # ""
      [] v.t = "number"    -> v.n # 0
      [] v.t = "boolean"   -> v.n = 1
      [] v.t = "array"     -> TRUE

(* ['txt', 'md'].includes(v) *)
Includes(list, v) == v.t = "string" /\ v.s \in list

(* v !== undefined && (typeof v !== 'number' || v <= 0) *)
NotPositiveNumber(v) == v.t # "undefined" /\ (v.t # "number" \/ v.n <= 0)

(* v && !Array.isArray(v) *)
NotArray(v) == Truthy(v) /\ v.t # "array"

ErrorIf(cond, message) == IF cond THEN <<message>> ELSE <<>>

Threw(errors) == [threw |-> TRUE, errors |-> errors]

Return(value) == [threw |-> FALSE, value |-> value]

(***************************************************************************)
(* validateExportConfiguration: collects the errors, throws if there is    *)
(* any, otherwise returns the configuration with the defaults filled in.   *)
(***************************************************************************)
validateExportConfiguration(config) ==
    LET errors ==
            ErrorIf(~Truthy(config.format) \/ ~Includes({"txt", "md"}, config.format),
                    "Format must be either txt or md")
         \o ErrorIf(~Truthy(config.outputMethod)
                       \/ ~Includes({"file", "clipboard"}, config.outputMethod),
                    "Output method must be either file or clipboard")
         \o ErrorIf(NotPositiveNumber(config.maxFileSize),
                    "maxFileSize must be a positive number")
         \o ErrorIf(NotPositiveNumber(config.truncateThreshold),
                    "truncateThreshold must be a positive number")
         \o ErrorIf(NotArray(config.excludePatterns),
                    "excludePatterns must be an array of strings")
         \o ErrorIf(NotArray(config.includePatterns),
                    "includePatterns must be an array of strings")
    IN IF Len(errors) > 0
       THEN Threw(errors)
       ELSE Return(
            [format |-> IF Truthy(config.format) THEN config.format.s ELSE "txt",
             outputMethod |-> IF Truthy(config.outputMethod) THEN config.outputMethod.s
                              ELSE "file",
             includeDirectoryStructure |->
                 IF config.includeDirectoryStructure.t = "undefined" THEN TRUE
                 ELSE config.includeDirectoryStructure.n = 1,
             maxFileSize |-> IF Truthy(config.maxFileSize) THEN config.maxFileSize.n
                             ELSE DefaultMaxFileSize,
             excludePatterns |-> IF Truthy(config.excludePatterns)
                                 THEN config.excludePatterns.a ELSE <<>>,
             includePatterns |-> IF Truthy(config.includePatterns)
                                 THEN config.includePatterns.a ELSE <<>>,
             truncateThreshold |-> IF Truthy(config.truncateThreshold)
                                   THEN config.truncateThreshold.n
                                   ELSE DefaultTruncateThreshold])

(* the configuration the webview's form sends: every field present *)
getCurrentConfiguration(cfg) ==
    [format |-> Str(cfg.format), outputMethod |-> Str(cfg.outputMethod),
     includeDirectoryStructure |-> Bool(cfg.includeDirectoryStructure),
     maxFileSize |-> Num(cfg.maxFileSize),
     excludePatterns |-> Arr(cfg.excludePatterns),
     includePatterns |-> Arr(cfg.includePatterns),
     truncateThreshold |-> Num(cfg.truncateThreshold)]

(***************************************************************************)
(* The generateExport messages of the model: the form's configurations,    *)
(* and one of them with a field replaced by a value of the wrong kind.     *)
(***************************************************************************)
FormRequest ==
    getCurrentConfiguration(
        [format |-> "md", outputMethod |-> "clipboard", includeDirectoryStructure |-> TRUE,
         maxFileSize |-> DefaultMaxFileSize, excludePatterns |-> <<>>,
         includePatterns |-> <<>>, truncateThreshold |-> DefaultTruncateThreshold])

BrokenRequests ==
    {[FormRequest EXCEPT !.format = Str("xml")],
     [FormRequest EXCEPT !.outputMethod = Str("printer")],
     [FormRequest EXCEPT !.maxFileSize = Num(0)],
     [FormRequest EXCEPT !.maxFileSize = Num(-1024)],
     [FormRequest EXCEPT !.truncateThreshold = Num(0)],
     [FormRequest EXCEPT !.excludePatterns = Str("not-an-array")],
     [FormRequest EXCEPT !.includePatterns = Str("not-an-array")],
     [FormRequest EXCEPT !.excludePatterns = Str("")],
     [FormRequest EXCEPT !.includePatterns = Bool(FALSE)]}

ExportRequests == {getCurrentConfiguration(cfg) : cfg \in Configurations} \cup BrokenRequests

HostSizes == {DefaultMaxFileSize, DefaultMaxFileSize + 1}

ClipboardThreshold == 1024 * 1024

VeryLargeMB == 10

MegaByte == 1024 * 1024

BomLength == 3

TruncationNote == 57

(***************************************************************************)
(* The text of the document is not modelled, only its sections and its     *)
(* length.  The length follows from the files' contents, which the host    *)
(* supplies: a run that read at least one file can have any of these       *)
(* lengths, a run that read none has a short document.                     *)
(***************************************************************************)
ShortContent == 1

ContentLengths ==
    {ShortContent, ClipboardThreshold, ClipboardThreshold + 1,
     VeryLargeMB * MegaByte, VeryLargeMB * MegaByte + 1}

(***************************************************************************)
(* Progress values are rationals <<numerator, denominator>>.               *)
(***************************************************************************)
Pct(n) == <<n, 1>>

Leq(a, b) == a[1] * b[2] <= b[1] * a[2]

OverallProgress(k, n) == <<20 * n + 70 * k, n>>

AdjustedProgress(progress) == <<95 * 100 + progress * 5, 100>>

NoResult == [defined |-> FALSE, success |-> FALSE, fallbackUsed |-> FALSE, error |-> "none"]

Success(fallbackUsed) ==
    [defined |-> TRUE, success |-> TRUE, fallbackUsed |-> fallbackUsed, error |-> "none"]

Failure(error) ==
    [defined |-> TRUE, success |-> FALSE, fallbackUsed |-> FALSE, error |-> error]

IdleRun ==
    [pc |-> "idle",
     request |-> FormRequest,
     cfg |-> [format |-> "md", outputMethod |-> "file", includeDirectoryStructure |-> FALSE,
              maxFileSize |-> DefaultMaxFileSize,
              excludePatterns |-> <<>>, includePatterns |-> <<>>,
              truncateThreshold |-> DefaultTruncateThreshold],
     selected |-> <<>>, validFiles |-> <<>>, k |-> 0, hostCalls |-> <<>>,
     totalFiles |-> 0, totalSize |-> 0, truncatedFiles |-> <<>>, sections |-> <<>>,
     progress |-> <<>>, callback |-> <<>>, contentLen |-> 0,
     writes |-> <<>>, prompts |-> <<>>, clipboardResult |-> NoResult,
     toWebview |-> <<>>, hostNotes |-> <<>>, handled |-> 0, webNotes |-> <<>>,
     isExporting |-> FALSE, posted |-> <<>>]

(***************************************************************************)
(* The text the pipeline puts around the files' contents, by what it       *)
(* holds: a line starting with '##', a code fence (three backquotes).      *)
(***************************************************************************)
Framing(heading, fence) == [heading |-> heading, fence |-> fence]

(* '# LLM Context Export' and '---', or the title over a line of '=' *)
generateHeader(configuration) == Framing(FALSE, FALSE)

(* '## Export Summary', or 'Export Summary:' under a line of '=' *)
generateFooter(configuration) ==
    IF configuration.format = "md" THEN Framing(TRUE, FALSE) ELSE Framing(FALSE, FALSE)

(* '## Directory Structure' and the tree between code fences: the format is
   not a parameter *)
generateDirectoryStructure == Framing(TRUE, TRUE)

(* '## File: <path>' and the content between code fences, or 'File: <path>'
   between two lines of '=' *)
formatFileContent(format) ==
    IF format = "md" THEN Framing(TRUE, TRUE) ELSE Framing(FALSE, FALSE)

(* '## File: <path>' and '**Error**: <message>', or the txt separator lines *)
formatError(format) ==
    IF format = "md" THEN Framing(TRUE, FALSE) ELSE Framing(FALSE, FALSE)

Report(r, value) == [r EXCEPT !.progress = Append(@, value)]

(* generateAndExport hands copyToClipboardWithProgress a callback that forwards
   its progress p as 95 + p * 0.05 *)
progressCallback(r, progress) ==
    [Report(r, AdjustedProgress(progress)) EXCEPT !.callback = Append(@, progress)]

Notify(r, kind, text) == [r EXCEPT !.hostNotes = Append(@, [kind |-> kind, text |-> text])]

Answer(r, prompt, answer) ==
    [r EXCEPT !.prompts = Append(@, [prompt |-> prompt, answer |-> answer])]

sendError(r, message) ==
    Notify([r EXCEPT !.toWebview = Append(@, [type |-> "error", message |-> message])],
           "error", message)

sendExportComplete(r, clipboardSuccess) ==
    [r EXCEPT !.toWebview =
        Append(@, [type |-> "exportComplete", clipboardSuccess |-> clipboardSuccess])]

State == [tree |-> workspaceTree, sel |-> selectedPaths, out |-> <<>>]

(***************************************************************************)
(* The extension side, WebviewProvider: its own copy of the tree and its   *)
(* own selectedPaths, the updateSelection messages posted to it (inbox),   *)
(* the workspaceTreeResponse it posted that the webview has not handled    *)
(* yet (outbox), and the session state in the workspace storage.           *)
(***************************************************************************)
NoSession == [saved |-> FALSE, selectedPaths |-> {}]

(* the constructor (loadSessionState) followed by resolveWebviewView
   (sendWorkspaceTree) *)
NewProvider(sessionState, tree) ==
    [workspaceTree |-> tree,
     selectedPaths |-> IF sessionState.saved THEN sessionState.selectedPaths ELSE {},
     inbox |-> <<>>, outbox |-> <<>>,
     workspaceState |-> sessionState]

NoCall == [fn |-> "none"]

Init ==
    /\ workspaceTree = getWorkspaceTree
    /\ selectedPaths = {}
    /\ lastOp = [op |-> "init"]
    /\ run = IdleRun
    /\ call = NoCall
    /\ provider = NewProvider(NoSession, getWorkspaceTree)
    /\ removed = {}

Toggle ==
    \E path \in Paths, isChecked \in BOOLEAN :
        /\ InTree(workspaceTree, path)
        /\ LET st == handleTreeNodeChange(State, path, isChecked) IN
            /\ workspaceTree' = st.tree
            /\ selectedPaths' = st.sel
        /\ lastOp' = [op |-> "toggle", path |-> path, checked |-> isChecked]
        /\ UNCHANGED <<run, call, provider, removed>>

ChildrenResponseFor(paths) ==
    \E path \in paths :
        /\ LET st == handleDirectoryChildrenResponse(State, path) IN
            /\ workspaceTree' = st.tree
            /\ selectedPaths' = st.sel
        /\ lastOp' = [op |-> "children", path |-> path,
                      wasSelected |-> workspaceTree[path].selected,
                      wasIndeterminate |-> workspaceTree[path].indeterminate,
                      wasInTree |-> InTree(workspaceTree, path)]
        /\ UNCHANGED <<run, call, provider, removed>>

ChildrenResponse == ChildrenResponseFor(Dirs)

Refresh ==
    /\ LET st == handleWorkspaceTreeResponse(State, getWorkspaceTree) IN
        /\ workspaceTree' = st.tree
        /\ selectedPaths' = st.sel
    /\ lastOp' = [op |-> "refresh"]
    /\ UNCHANGED <<run, call, provider, removed>>

Next == Toggle \/ ChildrenResponse \/ Refresh

(***************************************************************************)
(* The webview posts a generateExport message (handleExportClick, after    *)
(* its test of the selection): isExporting is set, whatever it was; posted *)
(* keeps, for every message posted, the value the flag had before.         *)
(***************************************************************************)
postGenerateExport(r) ==
    [r EXCEPT !.isExporting = TRUE,
              !.posted = Append(@, [isExporting |-> r.isExporting])]

(***************************************************************************)
(* handleGenerateExport, up to the call of generateAndExport: an empty     *)
(* selection is answered with an error; otherwise generateExport starts    *)
(* with the header.                                                        *)
(***************************************************************************)
TreeIdle == UNCHANGED <<workspaceTree, selectedPaths, lastOp, call, provider, removed>>

StartExportWith(lists, requests) ==
    /\ run.pc = "idle"
    /\ \E selected \in lists, configuration \in requests :
        LET validConfig == validateExportConfiguration(configuration)
            r == [postGenerateExport(run) EXCEPT !.request = configuration,
                                                 !.selected = selected]
        IN run' = IF validConfig.threw
                  THEN [sendError(Notify(r, "error", "Invalid configuration"), "Export failed")
                        EXCEPT !.pc = "sent"]
                  ELSE IF Len(selected) = 0
                  THEN [sendError(r, "No files selected for export") EXCEPT !.pc = "sent"]
                  ELSE [r EXCEPT !.cfg = validConfig.value, !.pc = "structure",
                                 !.sections = <<[kind |-> "header",
                                                 framing |-> generateHeader(validConfig.value)]>>]
    /\ TreeIdle

StartExport == StartExportWith(SelectedLists, ExportRequests)

(* the host is asked for the kind of every path: isDirectory *)
StatCalls(paths) == [i \in 1..Len(paths) |-> [call |-> "stat", path |-> paths[i]]]

(* generateExport: the directory structure block, when requested
   (filterValidFiles, then buildPathTree over the valid files) *)
GenerateStructure ==
    /\ run.pc = "structure"
    /\ run' = IF run.cfg.includeDirectoryStructure
              THEN [Report(run, Pct(10)) EXCEPT
                      !.pc = "filter",
                      !.hostCalls = @ \o StatCalls(run.selected)
                                      \o StatCalls(filterValidFiles(run.selected)),
                      !.sections = Append(@, [kind |-> "structure",
                                              framing |-> generateDirectoryStructure,
                                              paths |-> filterValidFiles(run.selected)])]
              ELSE [run EXCEPT !.pc = "filter"]
    /\ TreeIdle

(* generateExport: const validFiles = await this.filterValidFiles(selectedPaths) *)
FilterFiles ==
    /\ run.pc = "filter"
    /\ run' = [run EXCEPT !.pc = "files", !.validFiles = filterValidFiles(run.selected), !.k = 0,
                          !.hostCalls = @ \o StatCalls(run.selected)]
    /\ TreeIdle

(***************************************************************************)
(* generateExport: one pass of the loop over validFiles (the batches of    *)
(* BATCH_SIZE files are walked in order, index k = batchStart + i).  The   *)
(* host answers with the file's size and either its content or an error.   *)
(***************************************************************************)
(* the size test with >= in place of > *)
ExceedsLimit_AtLimit(size, maxFileSize) == size >= maxFileSize

(* processFile: if (stats.size > configuration.maxFileSize) *)
ExceedsLimit(size, maxFileSize) == size > maxFileSize

(* processFile, once the stats and the content are there: a file over the
   limit is cut and the truncation marker appended to what is left *)
processFile(size, configuration) ==
    IF ExceedsLimit(size, configuration.maxFileSize)
    THEN [size |-> size, truncated |-> TRUE, endsWithMarker |-> TRUE]
    ELSE [size |-> size, truncated |-> FALSE, endsWithMarker |-> FALSE]

(* the host calls of processFile: getFileStats, then getFileContent *)
ReadCalls(filePath, failure) ==
    <<[call |-> "stat", path |-> filePath]>>
    \o (IF failure = "stat" THEN <<>> ELSE <<[call |-> "readFile", path |-> filePath]>>)

(* a failed read counted like a file that was read *)
ProcessFile_CountsFailedRead ==
    /\ run.pc = "files"
    /\ run.k < Len(run.validFiles)
    /\ \E size \in HostSizes, failure \in {"none", "stat", "read"} :
        LET filePath == run.validFiles[run.k + 1]
            r == [Report(run, OverallProgress(run.k, Len(run.validFiles)))
                  EXCEPT !.hostCalls = @ \o ReadCalls(filePath, failure)]
            fileContent == processFile(size, run.cfg)
        IN run' = IF failure = "none"
                  THEN [r EXCEPT !.k = @ + 1,
                                 !.totalFiles = @ + 1,
                                 !.totalSize = @ + fileContent.size,
                                 !.truncatedFiles = IF fileContent.truncated
                                                    THEN Append(@, filePath) ELSE @,
                                 !.sections = Append(@, [kind |-> "file", path |-> filePath,
                                                         framing |-> formatFileContent(run.cfg.format),
                                                         size |-> fileContent.size,
                                                         truncated |-> fileContent.truncated,
                                                         endsWithMarker |-> fileContent.endsWithMarker])]
                  ELSE [r EXCEPT !.k = @ + 1,
                                 !.totalFiles = @ + 1,
                                 !.sections = Append(@, [kind |-> "error", path |-> filePath,
                                                         framing |-> formatError(run.cfg.format)])]
    /\ TreeIdle

ProcessFile ==
    /\ run.pc = "files"
    /\ run.k < Len(run.validFiles)
    /\ \E size \in HostSizes, failure \in {"none", "stat", "read"} :
        LET filePath == run.validFiles[run.k + 1]
            r == [Report(run, OverallProgress(run.k, Len(run.validFiles)))
                  EXCEPT !.hostCalls = @ \o ReadCalls(filePath, failure)]
            fileContent == processFile(size, run.cfg)
        IN run' = IF failure = "none"
                  THEN [r EXCEPT !.k = @ + 1,
                                 !.totalFiles = @ + 1,
                                 !.totalSize = @ + fileContent.size,
                                 !.truncatedFiles = IF fileContent.truncated
                                                    THEN Append(@, filePath) ELSE @,
                                 !.sections = Append(@, [kind |-> "file", path |-> filePath,
                                                         framing |-> formatFileContent(run.cfg.format),
                                                         size |-> fileContent.size,
                                                         truncated |-> fileContent.truncated,
                                                         endsWithMarker |-> fileContent.endsWithMarker])]
                  ELSE [r EXCEPT !.k = @ + 1,
                                 !.sections = Append(@, [kind |-> "error", path |-> filePath,
                                                         framing |-> formatError(run.cfg.format)])]
    /\ TreeIdle

(* generateExport: footer, the last two progress reports, the result *)
Finalize ==
    /\ run.pc = "files"
    /\ run.k = Len(run.validFiles)
    /\ \E len \in (IF run.totalFiles = 0 THEN {ShortContent} ELSE ContentLengths) :
        run' = [Report(Report(run, Pct(95)), Pct(100)) EXCEPT
                  !.pc = "generated",
                  !.sections = Append(@, [kind |-> "footer", framing |-> generateFooter(run.cfg),
                                          totalFiles |-> run.totalFiles,
                                          totalSize |-> run.totalSize,
                                          truncatedFiles |-> run.truncatedFiles]),
                  !.contentLen = len]
    /\ TreeIdle

(***************************************************************************)
(* generateAndExport after generateExport returned.  For the clipboard:    *)
(* progress 95, then copyToClipboardWithProgress up to its first await     *)
(* (its progress p is forwarded as 95 + p * 0.05).  For a file the result  *)
(* goes back to handleGenerateExport, which asks for the destination.      *)
(***************************************************************************)
Dispatch ==
    /\ run.pc = "generated"
    /\ run' = IF run.cfg.outputMethod = "clipboard"
              THEN LET r == progressCallback(Report(run, Pct(95)), 0) IN
                   IF run.contentLen > VeryLargeMB * MegaByte
                   THEN [r EXCEPT !.pc = "confirm"]
                   ELSE [progressCallback(r, 50) EXCEPT !.pc = "primary"]
              ELSE [run EXCEPT !.pc = "saveDialog"]
    /\ TreeIdle

(* the answer to the large-content warning not looked at *)
ConfirmLarge_IgnoresAnswer ==
    /\ run.pc = "confirm"
    /\ \E proceed \in {"Continue", "Cancel", "undefined"} :
        run' = [progressCallback(Answer(run, "confirmLargeContent", proceed), 50)
                EXCEPT !.pc = "primary"]
    /\ TreeIdle

(* copyToClipboardWithProgress: the answer to the large-content warning
   (undefined when the warning is dismissed) *)
ConfirmLarge ==
    /\ run.pc = "confirm"
    /\ \E proceed \in {"Continue", "Cancel", "undefined"} :
        LET r == Answer(run, "confirmLargeContent", proceed) IN
        run' = IF proceed = "Continue"
               THEN [progressCallback(r, 50) EXCEPT !.pc = "primary"]
               ELSE [r EXCEPT !.pc = "report",
                              !.clipboardResult = Failure("Operation cancelled by user")]
    /\ TreeIdle

(* the threshold test with >= in place of > *)
TooLargeForClipboard_AtThreshold(len) == len >= ClipboardThreshold

(* copyToClipboard: if (content.length > 1024 * 1024) *)
TooLargeForClipboard(len) == len > ClipboardThreshold

(* the return of copyToClipboard into copyToClipboardWithProgress *)
ClipboardDone(r, result) ==
    [progressCallback(r, 100) EXCEPT !.pc = "report", !.clipboardResult = result]

(* copyToClipboard: the first attempt *)
PrimaryWrite ==
    /\ run.pc = "primary"
    /\ \E ok \in BOOLEAN :
        LET r == [run EXCEPT !.writes = Append(@, [sink |-> "clipboard", truncated |-> FALSE,
                                                   len |-> run.contentLen, ok |-> ok])]
        IN run' = IF ok
                  THEN ClipboardDone(Notify(r, "info", "Content copied to clipboard successfully!"),
                                     Success(FALSE))
                  ELSE [r EXCEPT !.pc = IF TooLargeForClipboard(run.contentLen)
                                        THEN "truncated" ELSE "offer"]
    /\ TreeIdle

(* copyToClipboard: fallback mechanism 1, the truncated retry *)
TruncatedWrite ==
    /\ run.pc = "truncated"
    /\ \E ok \in BOOLEAN :
        LET r == [run EXCEPT !.writes = Append(@, [sink |-> "clipboard", truncated |-> TRUE,
                                                   len |-> ClipboardThreshold + TruncationNote,
                                                   ok |-> ok])]
        IN run' = IF ok
                  THEN ClipboardDone(Notify(r, "warning", "Content was truncated"), Success(TRUE))
                  ELSE [r EXCEPT !.pc = "offer"]
    /\ TreeIdle

(* copyToClipboard: fallback mechanism 2, the offer to save as a file *)
OfferSave ==
    /\ run.pc = "offer"
    /\ \E fallbackAction \in {"Save as File", "Cancel"} :
        LET r == Notify(Answer(run, "saveAsFile", fallbackAction),
                        "error", "Failed to copy to clipboard")
        IN run' = IF fallbackAction = "Save as File"
                  THEN [r EXCEPT !.pc = "destination"]
                  ELSE ClipboardDone(r, Failure("Clipboard operation failed"))
    /\ TreeIdle

(* the save dialog's answer not looked at: a dismissed dialog counts as saved *)
ChooseDestination_IgnoresDismissal ==
    /\ run.pc = "destination"
    /\ \E saveUri \in BOOLEAN :
        LET r == Answer(run, "showSaveDialog", IF saveUri THEN "uri" ELSE "undefined") IN
        run' = IF saveUri
               THEN [r EXCEPT !.pc = "fallbackWrite"]
               ELSE ClipboardDone(r, Success(TRUE))
    /\ TreeIdle

ChooseDestination ==
    /\ run.pc = "destination"
    /\ \E saveUri \in BOOLEAN :
        LET r == Answer(run, "showSaveDialog", IF saveUri THEN "uri" ELSE "undefined") IN
        run' = IF saveUri
               THEN [r EXCEPT !.pc = "fallbackWrite"]
               ELSE ClipboardDone(r, Failure("Clipboard operation failed"))
    /\ TreeIdle

FallbackWrite ==
    /\ run.pc = "fallbackWrite"
    /\ \E ok \in BOOLEAN :
        LET r == [run EXCEPT !.writes = Append(@, [sink |-> "file", truncated |-> FALSE,
                                                   len |-> BomLength + run.contentLen, ok |-> ok])]
        IN run' = IF ok
                  THEN ClipboardDone(Notify(r, "info", "Content saved"), Success(TRUE))
                  ELSE ClipboardDone(Notify(r, "error", "Failed to save file"),
                                     Failure("Clipboard operation failed"))
    /\ TreeIdle

(* handleGenerateExport: the clipboard branch after generateAndExport *)
ReportClipboard ==
    /\ run.pc = "report"
    /\ LET clipboardResult == run.clipboardResult
           r == sendExportComplete(run, IF clipboardResult.success THEN "true" ELSE "false")
       IN run' = [(IF clipboardResult.success
                   THEN Notify(r, "info",
                               IF clipboardResult.fallbackUsed
                               THEN "Export completed with fallback!"
                               ELSE "Export completed successfully!")
                   ELSE sendError(r, clipboardResult.error))
                  EXCEPT !.pc = "sent"]
    /\ TreeIdle

(* a dismissed save dialog ends the handler without a message *)
SaveDialog_SilentCancel ==
    /\ run.pc = "saveDialog"
    /\ \E saveUri \in BOOLEAN :
        LET r == Answer(run, "showSaveDialog", IF saveUri THEN "uri" ELSE "undefined") IN
        run' = IF saveUri
               THEN [r EXCEPT !.pc = "exportWrite"]
               ELSE [r EXCEPT !.pc = "sent"]
    /\ TreeIdle

(* handleGenerateExport: the file branch, the save dialog *)
SaveDialog ==
    /\ run.pc = "saveDialog"
    /\ \E saveUri \in BOOLEAN :
        LET r == Answer(run, "showSaveDialog", IF saveUri THEN "uri" ELSE "undefined") IN
        run' = IF saveUri
               THEN [r EXCEPT !.pc = "exportWrite"]
               ELSE [sendError(r, "Export cancelled by user") EXCEPT !.pc = "sent"]
    /\ TreeIdle

(* handleGenerateExport: the file is written; a failed write is caught *)
ExportWrite ==
    /\ run.pc = "exportWrite"
    /\ \E ok \in BOOLEAN :
        LET r == [run EXCEPT !.writes = Append(@, [sink |-> "file", truncated |-> FALSE,
                                                   len |-> BomLength + run.contentLen, ok |-> ok])]
        IN run' = IF ok
                  THEN [Notify(sendExportComplete(r, "undefined"), "info",
                               "Export completed successfully!") EXCEPT !.pc = "sent"]
                  ELSE [sendError(Notify(r, "error", "Export failed"), "Export failed")
                        EXCEPT !.pc = "sent"]
    /\ TreeIdle

(***************************************************************************)
(* The webview takes the next message: handleExportComplete, handleError.  *)
(* Both clear isExporting before anything else.                            *)
(***************************************************************************)
handleExportComplete(payload) ==
    IF payload.clipboardSuccess # "undefined"
    THEN IF payload.clipboardSuccess = "true"
         THEN [type |-> "success", text |-> "Successfully copied files to clipboard!"]
         ELSE [type |-> "error", text |-> "Failed to copy content to clipboard"]
    ELSE [type |-> "success", text |-> "Export completed successfully!"]

handleError(payload) == [type |-> "error", text |-> payload.message]

WebviewReceive ==
    /\ run.handled < Len(run.toWebview)
    /\ LET message == run.toWebview[run.handled + 1] IN
       run' = [run EXCEPT !.handled = @ + 1,
                          !.isExporting = FALSE,
                          !.webNotes = Append(@, IF message.type = "exportComplete"
                                                 THEN handleExportComplete(message)
                                                 ELSE handleError(message))]
    /\ TreeIdle

NextExport ==
    \/ StartExport \/ GenerateStructure \/ FilterFiles \/ ProcessFile \/ Finalize
    \/ Dispatch \/ ConfirmLarge \/ PrimaryWrite \/ TruncatedWrite \/ OfferSave
    \/ ChooseDestination \/ FallbackWrite \/ ReportClipboard \/ SaveDialog \/ ExportWrite
    \/ WebviewReceive

SpecExport == Init /\ [][NextExport]_vars

(***************************************************************************)
(* The file-tree service called directly.  A workspace is a set of paths   *)
(* relative to the workspace folder, closed under parents; the folder      *)
(* itself is the empty path.                                               *)
(***************************************************************************)
Join(dir, name) == dir \o <<"/">> \o name

N_out == <<"o", "u", "t">>

N_a == <<"a">>

N_d == <<"d">>

N_s == <<"s">>

G_out == Join(N_out, <<"*", "*">>)

(* of DEFAULT_EXCLUDE_PATTERNS: 'out/**' and '*.log' *)
DEFAULT_EXCLUDE_PATTERNS == <<G_out, G_log>>

shouldExcludeByDefault(filePath) == matchesPatterns(filePath, DEFAULT_EXCLUDE_PATTERNS)

WorkspaceDirs == {N_out, Join(N_out, N_d), N_s, Join(N_s, N_out)}

WorkspaceFiles ==
    {Join(N_out, N_a), Join(Join(N_out, N_d), N_a), Join(N_s, P_log),
     Join(Join(N_s, N_out), N_a), P_log, P_ts}

Parent(p) ==
    LET slashes == {i \in 1..Len(p) : p[i] = "/"} IN
    IF slashes = {} THEN <<>>
    ELSE SubSeq(p, 1, (CHOOSE i \in slashes : \A j \in slashes : j <= i) - 1)

Workspaces ==
    {fs \in SUBSET (WorkspaceDirs \cup WorkspaceFiles) :
        \A p \in fs : Parent(p) = <<>> \/ Parent(p) \in fs \cap WorkspaceDirs}

(* vscode.workspace.fs.readDirectory, as relative paths *)
readDirectory(fs, dir) == {p \in fs : Parent(p) = dir}

(***************************************************************************)
(* getDirectoryChildren: the entries of the directory that                 *)
(* shouldExcludeByDefault lets through, and, unless lazyLoad, the same for *)
(* every directory among them.  The answer is the set of the nodes' paths. *)
(***************************************************************************)
RECURSIVE getDirectoryChildren(_, _, _)
getDirectoryChildren(fs, dir, lazyLoad) ==
    LET children == {p \in readDirectory(fs, dir) : ~shouldExcludeByDefault(p)} IN
    children \cup (IF lazyLoad THEN {}
                   ELSE UNION {getDirectoryChildren(fs, c, FALSE) :
                                 c \in children \cap WorkspaceDirs})

(* getWorkspaceTree: buildTreeFromUri(folder.uri, folder.name, false) *)
buildTreeFromUri(fs) == getDirectoryChildren(fs, <<>>, FALSE)

loadDirectoryChildren(fs, dirPath) == getDirectoryChildren(fs, dirPath, TRUE)

(***************************************************************************)
(* filterFiles over a forest of nodes [path, type, children].              *)
(***************************************************************************)
NullNode == [path |-> <<>>, type |-> "null", children |-> <<>>]

FileNode(p) == [path |-> p, type |-> "file", children |-> <<>>]

DirNode(p, children) == [path |-> p, type |-> "directory", children |-> children]

NotNull(node) == node # NullNode

RECURSIVE filterNode(_, _, _)
filterNode(node, includePatterns, excludePatterns) ==
    LET filteredChildren ==
            SelectSeq([i \in 1..Len(node.children) |->
                          filterNode(node.children[i], includePatterns, excludePatterns)],
                      NotNull)
    IN IF matchesPatterns(node.path, excludePatterns) THEN NullNode
       ELSE IF Len(includePatterns) > 0 /\ ~matchesPatterns(node.path, includePatterns)
       THEN IF node.type = "directory" /\ Len(node.children) > 0 /\ Len(filteredChildren) > 0
            THEN [node EXCEPT !.children = filteredChildren]
            ELSE NullNode
       ELSE IF node.type = "directory" /\ Len(node.children) > 0
       THEN [node EXCEPT !.children = filteredChildren]
       ELSE node

filterFiles(nodes, includePatterns, excludePatterns) ==
    SelectSeq([i \in 1..Len(nodes) |-> filterNode(nodes[i], includePatterns, excludePatterns)],
              NotNull)

(* the inputs of the calls *)
MatchPaths == WorkspaceDirs \cup WorkspaceFiles \cup {Join(N_out, <<>>)}

MatchPatterns ==
    {G_out, G_log, G_ts, <<"*", "*">>, Join(N_out, <<"?">>), Join(<<"*", "*">>, N_a)}

NodeChoices ==
    {FileNode(p) : p \in WorkspaceFiles}
    \cup {DirNode(N_out, <<DirNode(Join(N_out, N_d), <<FileNode(Join(Join(N_out, N_d), N_a))>>),
                           FileNode(Join(N_out, N_a))>>)}

Forests == {<<n>> : n \in NodeChoices} \cup {<<n, m>> : n, m \in NodeChoices}

(* one call from the service as constructed; the webview and the run idle *)
CallIdle ==
    call = NoCall /\ UNCHANGED <<workspaceTree, selectedPaths, lastOp, run, provider, removed>>

MatchCall ==
    /\ CallIdle
    /\ \E filePath \in MatchPaths, pattern \in MatchPatterns :
        call' = [fn |-> "matchesPattern", filePath |-> filePath, pattern |-> pattern,
                 result |-> matchesPattern(filePath, pattern)]

FilterCall ==
    /\ CallIdle
    /\ \E nodes \in Forests, pc \in PatternChoices \cup {[excludePatterns |-> <<G_out>>,
                                                           includePatterns |-> <<>>]} :
        call' = [fn |-> "filterFiles", nodes |-> nodes,
                 includePatterns |-> pc.includePatterns, excludePatterns |-> pc.excludePatterns,
                 result |-> filterFiles(nodes, pc.includePatterns, pc.excludePatterns)]

(* getWorkspaceTree on a workspace *)
TreeCall ==
    /\ CallIdle
    /\ \E fs \in Workspaces :
        call' = [fn |-> "getWorkspaceTree", fs |-> fs, result |-> buildTreeFromUri(fs)]

(* loadDirectoryChildren for a directory the tree shows *)
ChildrenCall ==
    /\ CallIdle
    /\ \E fs \in Workspaces :
        \E dirPath \in buildTreeFromUri(fs) \cap WorkspaceDirs :
            call' = [fn |-> "loadDirectoryChildren", fs |-> fs, dirPath |-> dirPath,
                     result |-> loadDirectoryChildren(fs, dirPath)]

(***************************************************************************)
(* ConfigurationService: validateAndMigrateConfiguration and what it calls. *)
(* The settings are what vscode.workspace.getConfiguration holds, sizes in *)
(* KB.                                                                     *)
(***************************************************************************)
G_git == Join(<<".", "g", "i", "t">>, <<"*", "*">>)

KiloByte == 1024

(* v <= 0 with JavaScript's conversion to a number: '' and [] and false
   convert to 0, undefined and the other strings and arrays to NaN *)
LeqZero(v) ==
    CASE v.t = "undefined" -> FALSE
      [] v.t = "string"    -> v.s = ""
      [] v.t = "number"    -> v.n <= 0
      [] v.t = "boolean"   -> v.n <= 0
      [] v.t = "array"     -> v.a = <<>>

migrateConfiguration(config) ==
    [config EXCEPT
        !.format = IF Truthy(@) /\ ~Includes({"txt", "md"}, @) THEN Str("md") ELSE @,
        !.outputMethod = IF Truthy(@) /\ ~Includes({"file", "clipboard"}, @)
                         THEN Str("file") ELSE @,
        !.maxFileSize = IF @.t # "undefined" /\ LeqZero(@) THEN Num(1024 * 1024) ELSE @,
        !.truncateThreshold = IF @.t # "undefined" /\ LeqZero(@)
                              THEN Num(10 * 1024 * 1024) ELSE @,
        !.excludePatterns = IF NotArray(@) THEN Arr(<<>>) ELSE @,
        !.includePatterns = IF NotArray(@) THEN Arr(<<>>) ELSE @]

(* of the two fallback exclude patterns: '.git/**' *)
getFallbackConfiguration ==
    [format |-> "md", outputMethod |-> "file", includeDirectoryStructure |-> TRUE,
     maxFileSize |-> 1024 * 1024, excludePatterns |-> <<G_git>>, includePatterns |-> <<>>,
     truncateThreshold |-> 10 * 1024 * 1024]

(* the settings, read and converted to bytes *)
defaultConfig(settings) ==
    [format |-> settings.defaultFormat, outputMethod |-> settings.defaultOutputMethod,
     includeDirectoryStructure |-> settings.includeDirectoryStructure,
     maxFileSize |-> Num(settings.maxFileSize.n * KiloByte),
     excludePatterns |-> settings.excludePatterns,
     includePatterns |-> settings.includePatterns,
     truncateThreshold |-> Num(settings.truncateThreshold.n * KiloByte)]

(* the settings handed on as they are, without validation and fallback *)
getDefaultExportConfiguration_Unchecked(settings) ==
    LET c == defaultConfig(settings) IN
    [format |-> c.format.s, outputMethod |-> c.outputMethod.s,
     includeDirectoryStructure |-> c.includeDirectoryStructure.n = 1,
     maxFileSize |-> c.maxFileSize.n, excludePatterns |-> c.excludePatterns.a,
     includePatterns |-> c.includePatterns.a, truncateThreshold |-> c.truncateThreshold.n]

getDefaultExportConfiguration(settings) ==
    LET validated == validateExportConfiguration(defaultConfig(settings)) IN
    IF validated.threw THEN getFallbackConfiguration ELSE validated.value

validateAndMigrateConfiguration(config, settings) ==
    LET asIs == validateExportConfiguration(config) IN
    IF ~asIs.threw THEN asIs.value
    ELSE LET migrated == validateExportConfiguration(migrateConfiguration(config)) IN
         IF ~migrated.threw THEN migrated.value
         ELSE getDefaultExportConfiguration(settings)

(* the settings as shipped (of the default exclude patterns: '*.log') *)
ShippedSettings ==
    [defaultFormat |-> Str("md"), defaultOutputMethod |-> Str("file"),
     includeDirectoryStructure |-> Bool(TRUE), maxFileSize |-> Num(1024),
     excludePatterns |-> Arr(<<G_log>>), includePatterns |-> Arr(<<>>),
     truncateThreshold |-> Num(10240)]

(* and as a user's settings.json can make them *)
SettingsChoices ==
    {ShippedSettings,
     [ShippedSettings EXCEPT !.defaultFormat = Str("xml")],
     [ShippedSettings EXCEPT !.maxFileSize = Num(0)],
     [ShippedSettings EXCEPT !.defaultOutputMethod = Str("clipboard"),
                             !.maxFileSize = Num(512)]}

PartialConfigurations ==
    [format : {Undefined, Str("md"), Str("txt"), Str("xml")},
     outputMethod : {Undefined, Str("file"), Str("printer")},
     includeDirectoryStructure : {Undefined, Bool(FALSE)},
     maxFileSize : {Undefined, Num(1024), Num(0), Num(-100), Str("big")},
     excludePatterns : {Undefined, Arr(<<G_log>>), Str("not-an-array"), Str("")},
     includePatterns : {Undefined, Str("not-an-array")},
     truncateThreshold : {Undefined, Num(0)}]

ValidateCall ==
    /\ CallIdle
    /\ \E config \in PartialConfigurations :
        call' = [fn |-> "validateExportConfiguration", config |-> config,
                 result |-> validateExportConfiguration(config)]

MigrateCall ==
    /\ CallIdle
    /\ \E config \in PartialConfigurations, settings \in SettingsChoices :
        call' = [fn |-> "validateAndMigrateConfiguration", config |-> config,
                 settings |-> settings,
                 result |-> validateAndMigrateConfiguration(config, settings)]

(***************************************************************************)
(* getFileContent, getFileStats and isDirectory on any path.  The host is  *)
(* asked with a path relative to the workspace folder (<<>> is the folder  *)
(* itself) and answers "file", "directory" or "error".                     *)
(***************************************************************************)
MaxPathLen == 5

PathAlphabet == {"w", ".", "/", "\\"}

PathStrings == UNION {[1..n -> PathAlphabet] : n \in 0..MaxPathLen}

(* a folder named 'w', and one named 'w..' *)
WorkspaceFolderNames == {<<"w">>, <<"w", ".", ".">>}

StartsWith(str, prefix) ==
    Len(str) >= Len(prefix) /\ SubSeq(str, 1, Len(prefix)) = prefix

StrIncludes(str, sub) ==
    \E i \in 1..(Len(str) - Len(sub) + 1) : SubSeq(str, i, i + Len(sub) - 1) = sub

(* a leading '/' accepted *)
validateFilePath_AllowsAbsolute(path) ==
    /\ path # <<>>
    /\ ~(StrIncludes(path, <<".", ".">>) \/ StrIncludes(path, <<"/", "/">>))

validateFilePath(path) ==
    /\ path # <<>>
    /\ ~(StrIncludes(path, <<".", ".">>) \/ StrIncludes(path, <<"/", "/">>))
    /\ ~StartsWith(path, <<"/">>)

(* path.replace(/\\/g, '/').replace(/\/+/g, '/') *)
RECURSIVE CollapseSlashes(_)
CollapseSlashes(str) ==
    IF Len(str) < 2 THEN str
    ELSE IF str[1] = "/" /\ str[2] = "/" THEN CollapseSlashes(Tail(str))
    ELSE <<str[1]>> \o CollapseSlashes(Tail(str))

sanitizeFilePath(path) ==
    CollapseSlashes([i \in 1..Len(path) |-> IF path[i] = "\\" THEN "/" ELSE path[i]])

(* if the path starts with the workspace folder name, remove it *)
resolvedPath(name, filePath) ==
    IF StartsWith(filePath, name \o <<"/">>)
    THEN SubSeq(filePath, Len(name) + 2, Len(filePath))
    ELSE filePath

Answered_(hostCalls, outcome) == [hostCalls |-> hostCalls, outcome |-> outcome]

getFileContent(name, filePath, host) ==
    IF filePath = name THEN Answered_(<<>>, "error")
    ELSE IF ~validateFilePath(resolvedPath(name, filePath)) THEN Answered_(<<>>, "error")
    ELSE Answered_(<<[call |-> "readFile",
                      path |-> sanitizeFilePath(resolvedPath(name, filePath))]>>,
                   IF host = "file" THEN "content" ELSE "error")

getFileStats(name, filePath, host) ==
    IF filePath = name
    THEN Answered_(<<[call |-> "stat", path |-> <<>>]>>,
                   IF host = "error" THEN "error" ELSE "stats")
    ELSE IF ~validateFilePath(resolvedPath(name, filePath)) THEN Answered_(<<>>, "error")
    ELSE Answered_(<<[call |-> "stat",
                      path |-> sanitizeFilePath(resolvedPath(name, filePath))]>>,
                   IF host = "error" THEN "error" ELSE "stats")

isDirectory(name, filePath, host) ==
    IF filePath = name THEN Answered_(<<>>, "true")
    ELSE IF ~validateFilePath(resolvedPath(name, filePath)) THEN Answered_(<<>>, "false")
    ELSE Answered_(<<[call |-> "stat",
                      path |-> sanitizeFilePath(resolvedPath(name, filePath))]>>,
                   IF host = "directory" THEN "true" ELSE "false")

PathCall ==
    /\ CallIdle
    /\ \E name \in WorkspaceFolderNames, filePath \in PathStrings,
          host \in {"file", "directory", "error"},
          fn \in {"getFileContent", "getFileStats", "isDirectory"} :
        call' = [fn |-> fn, name |-> name, filePath |-> filePath, host |-> host,
                 result |-> CASE fn = "getFileContent" -> getFileContent(name, filePath, host)
                              [] fn = "getFileStats" -> getFileStats(name, filePath, host)
                              [] fn = "isDirectory" -> isDirectory(name, filePath, host)]

NextCalls == MatchCall \/ FilterCall \/ TreeCall \/ ChildrenCall \/ ValidateCall \/ MigrateCall
             \/ PathCall

SpecCalls == Init /\ [][NextCalls]_vars

(***************************************************************************)
(* generateExport's accumulation of the content.  A text is a sequence of  *)
(* characters.  contentChunks starts with the header; every later text is  *)
(* pushed as a new chunk if it would take the current chunk over           *)
(* CHUNK_SIZE_LIMIT and is appended to the last chunk otherwise; the       *)
(* content is contentChunks.join('').  The limit is 1 MB in the source; it *)
(* is an input here, with texts of a few characters.                       *)
(***************************************************************************)
MaxChunkLimit == 4

CHUNK_SIZE_LIMITS == 0..MaxChunkLimit

NoText == <<>>

HeaderTexts == {<<"h">>, <<"h", "h", "h">>}

StructureTexts == {NoText, <<"s">>, <<"s", "s", "s">>}

FragmentTexts == {<<"f">>, <<"g", "g">>, <<"e", "e", "e">>}

FooterTexts == {<<"t">>, <<"t", "t">>}

MaxFragments == 2

FragmentLists == UNION {[1..n -> FragmentTexts] : n \in 0..MaxFragments}

(* the chunk that replaces the last one instead of following it *)
addToChunks_DropsFullChunk(acc, text, limit) ==
    IF acc.currentChunkSize + Len(text) > limit
    THEN [contentChunks |-> SubSeq(acc.contentChunks, 1, Len(acc.contentChunks) - 1)
                            \o <<text>>,
          currentChunkSize |-> Len(text)]
    ELSE [contentChunks |-> [acc.contentChunks EXCEPT ![Len(acc.contentChunks)] = @ \o text],
          currentChunkSize |-> acc.currentChunkSize + Len(text)]

(* if (currentChunkSize + text.length > CHUNK_SIZE_LIMIT) push, else += *)
addToChunks(acc, text, limit) ==
    IF acc.currentChunkSize + Len(text) > limit
    THEN [contentChunks |-> Append(acc.contentChunks, text),
          currentChunkSize |-> Len(text)]
    ELSE IF acc.contentChunks = <<>>
    THEN [contentChunks |-> <<text>>,
          currentChunkSize |-> acc.currentChunkSize + Len(text)]
    ELSE [contentChunks |-> [acc.contentChunks EXCEPT ![Len(acc.contentChunks)] = @ \o text],
          currentChunkSize |-> acc.currentChunkSize + Len(text)]

RECURSIVE addAllToChunks(_, _, _)
addAllToChunks(acc, texts, limit) ==
    IF texts = <<>> THEN acc
    ELSE addAllToChunks(addToChunks(acc, Head(texts), limit), Tail(texts), limit)

(* Array.prototype.join with the empty separator *)
RECURSIVE JoinChunks(_)
JoinChunks(chunks) ==
    IF chunks = <<>> THEN <<>> ELSE Head(chunks) \o JoinChunks(Tail(chunks))

(* the chunks of generateExport: header, the structure block when requested,
   the blocks of the files in order, the footer *)
generateExportChunks(header, structure, blocks, footer, limit) ==
    LET a0 == [contentChunks |-> <<header>>, currentChunkSize |-> Len(header)]
        a1 == IF structure # NoText THEN addToChunks(a0, structure, limit) ELSE a0
        a2 == addAllToChunks(a1, blocks, limit)
    IN addToChunks(a2, footer, limit).contentChunks

ChunkCall ==
    /\ CallIdle
    /\ \E header \in HeaderTexts, structure \in StructureTexts, blocks \in FragmentLists,
          footer \in FooterTexts, limit \in CHUNK_SIZE_LIMITS :
        LET contentChunks == generateExportChunks(header, structure, blocks, footer, limit) IN
        call' = [fn |-> "generateExport", header |-> header, structure |-> structure,
                 blocks |-> blocks, footer |-> footer, limit |-> limit,
                 contentChunks |-> contentChunks,
                 content |-> JoinChunks(contentChunks)]

NextChunks == ChunkCall

SpecChunks == Init /\ [][NextChunks]_vars

(***************************************************************************)
(* A session: the user goes on toggling checkboxes while the extension     *)
(* works on a generateExport message.  The webview takes change events     *)
(* whenever it is idle, and handleGenerateExport gives up control at every  *)
(* await.  The message is sent by handleExportClick, which needs a         *)
(* selection; it carries one text file and asks for a file export.         *)
(***************************************************************************)
SessionLists == {<<P_ts>>}

SessionRequests ==
    {getCurrentConfiguration(cfg) :
        cfg \in {c \in Configurations : c.outputMethod = "file" /\ c.excludePatterns = <<>>
                                                              /\ c.includePatterns = <<>>}}

handleExportClick ==
    /\ selectedPaths # {}
    /\ StartExportWith(SessionLists, SessionRequests)

NextSession ==
    \/ Toggle
    \/ handleExportClick \/ GenerateStructure \/ FilterFiles \/ ProcessFile \/ Finalize
    \/ Dispatch \/ SaveDialog \/ ExportWrite \/ WebviewReceive

SpecSession == Init /\ [][NextSession]_vars

(***************************************************************************)
(* The webview and the extension together.  A checkbox change posts one    *)
(* updateSelection message per node it wrote; WebviewProvider handles the  *)
(* messages one by one.  A directory may be deleted from the workspace; a  *)
(* refresh (sendWorkspaceTree) rebuilds the extension's tree and posts it  *)
(* to the webview, which replaces its own when the message arrives.  A new *)
(* session starts with what the workspace storage holds.                   *)
(***************************************************************************)
(* the directory the user may delete, with what is in it *)
Removable == {"b", "b/z"}

(* getWorkspaceTree when the paths in gone are no longer in the workspace *)
getWorkspaceTreeWithout(gone) ==
    [p \in Paths |->
        [EagerNode(p) EXCEPT !.children = SelectSeq(@, LAMBDA child : child \notin gone)]]

(* WebviewProvider.updateTreeNodeSelectionState: the flags of the node with
   the path are set, if the walk through the tree finds it *)
updateTreeNodeSelectionState(tree, targetPath, selected, indeterminate) ==
    IF findNodeByPath(tree, <<Root>>, targetPath) = Null THEN tree
    ELSE [tree EXCEPT ![targetPath].selected = selected,
                      ![targetPath].indeterminate = indeterminate]

(* rememberSelections is true unless the user changed the setting *)
saveSessionState(p) ==
    [p EXCEPT !.workspaceState = [saved |-> TRUE, selectedPaths |-> p.selectedPaths]]

handleUpdateSelection(p, message) ==
    saveSessionState(
        [p EXCEPT !.selectedPaths = IF message.selected THEN @ \cup {message.path}
                                    ELSE @ \ {message.path},
                  !.workspaceTree = updateTreeNodeSelectionState(
                                        @, message.path, message.selected,
                                        message.indeterminate)])

(* the checkboxes the user works with: a file two levels down and the
   directory that may be deleted *)
PostingPaths == {"a/x", "b"}

(* a change event of a checkbox, with the messages it posts; the extension
   has handled the messages of the change before *)
ToggleAndPost ==
    \E path \in PostingPaths, isChecked \in BOOLEAN :
        /\ provider.inbox = <<>>
        /\ InTree(workspaceTree, path)
        /\ LET st == handleTreeNodeChange(State, path, isChecked) IN
            /\ workspaceTree' = st.tree
            /\ selectedPaths' = st.sel
            /\ provider' = [provider EXCEPT !.inbox = @ \o st.out]
        /\ lastOp' = [op |-> "toggle", path |-> path, checked |-> isChecked]
        /\ UNCHANGED <<run, call, removed>>

(* handleMessage, case 'updateSelection' *)
UpdateSelection ==
    /\ provider.inbox # <<>>
    /\ provider' = [handleUpdateSelection(provider, Head(provider.inbox))
                    EXCEPT !.inbox = Tail(@)]
    /\ lastOp' = [op |-> "updateSelection"]
    /\ UNCHANGED <<workspaceTree, selectedPaths, run, call, removed>>

(* the user deletes a directory of the workspace *)
Remove ==
    /\ removed = {}
    /\ removed' = Removable
    /\ UNCHANGED <<workspaceTree, selectedPaths, lastOp, run, call, provider>>

(* refresh / handleRequestWorkspaceTree: sendWorkspaceTree *)
sendWorkspaceTree ==
    /\ provider.outbox = <<>>
    /\ LET tree == getWorkspaceTreeWithout(removed) IN
       provider' = [provider EXCEPT !.workspaceTree = tree, !.outbox = <<tree>>]
    /\ lastOp' = [op |-> "sendWorkspaceTree"]
    /\ UNCHANGED <<workspaceTree, selectedPaths, run, call, removed>>

(* the webview takes the workspaceTreeResponse *)
TreeResponse ==
    /\ provider.outbox # <<>>
    /\ LET st == handleWorkspaceTreeResponse(State, Head(provider.outbox)) IN
        /\ workspaceTree' = st.tree
        /\ selectedPaths' = st.sel
    /\ provider' = [provider EXCEPT !.outbox = Tail(@)]
    /\ lastOp' = [op |-> "refresh"]
    /\ UNCHANGED <<run, call, removed>>

(* the window is reloaded: a new WebviewProvider, a new webview *)
Activate ==
    /\ LET tree == getWorkspaceTreeWithout(removed) IN
        /\ provider' = NewProvider(provider.workspaceState, tree)
        /\ workspaceTree' = tree
    /\ selectedPaths' = {}
    /\ lastOp' = [op |-> "activate"]
    /\ UNCHANGED <<run, call, removed>>

(* the directory whose children are asked for is the one that may be deleted *)
LateChildrenResponse == ChildrenResponseFor({"b"})

NextProvider ==
    \/ ToggleAndPost \/ UpdateSelection \/ LateChildrenResponse
    \/ Remove \/ sendWorkspaceTree \/ TreeResponse

SpecProvider == Init /\ [][NextProvider]_vars

(* the commands selectAll and deselectAll: WebviewProvider posts the message,
   the webview handles it *)
SelectAll ==
    /\ LET st == handleSelectAll(State) IN
        /\ workspaceTree' = st.tree
        /\ selectedPaths' = st.sel
        /\ provider' = [provider EXCEPT !.inbox = @ \o st.out]
    /\ lastOp' = [op |-> "selectAll"]
    /\ UNCHANGED <<run, call, removed>>

DeselectAll ==
    /\ LET st == handleDeselectAll(State) IN
        /\ workspaceTree' = st.tree
        /\ selectedPaths' = st.sel
        /\ provider' = [provider EXCEPT !.inbox = @ \o st.out]
    /\ lastOp' = [op |-> "deselectAll"]
    /\ UNCHANGED <<run, call, removed>>

NextSelection ==
    \/ ToggleAndPost \/ UpdateSelection \/ LateChildrenResponse
    \/ SelectAll \/ DeselectAll

SpecSelection == Init /\ [][NextSelection]_vars

(* sessions one after the other, the workspace left as it is *)
NextRestart == ToggleAndPost \/ UpdateSelection \/ Activate

SpecRestart == Init /\ [][NextRestart]_vars

(***************************************************************************)
(* The quick-export command: WebviewProvider.quickExport posts quickExport *)
(* to the webview, whose handleQuickExport calls handleExportClick when    *)
(* there is a selection.  Neither looks at isExporting (only the export    *)
(* button is disabled by it).  A message posted while the extension works  *)
(* on an earlier one waits in posted.                                      *)
(***************************************************************************)
MaxRequests == 2

handleQuickExport ==
    /\ selectedPaths # {}
    /\ \/ StartExportWith(SessionLists, SessionRequests)
       \/ /\ run.pc # "idle"
          /\ Len(run.posted) < MaxRequests
          /\ run' = postGenerateExport(run)
          /\ TreeIdle

NextQuick ==
    \/ ToggleAndPost \/ UpdateSelection
    \/ handleExportClick \/ handleQuickExport
    \/ GenerateStructure \/ FilterFiles \/ ProcessFile \/ Finalize
    \/ Dispatch \/ SaveDialog \/ ExportWrite \/ WebviewReceive

SpecQuick == Init /\ [][NextQuick]_vars

(***************************************************************************)
(* Checkbox toggles alone, on the tree the host delivered.                 *)
(***************************************************************************)
NextToggle == Toggle

SpecToggle == Init /\ [][NextToggle]_vars

Spec == Init /\ [][Next]_vars

(***************************************************************************)
(*                         Properties of the tree                          *)
(***************************************************************************)
TriState(node) ==
    IF node.selected /\ node.indeterminate THEN "both"
    ELSE IF node.selected THEN "selected"
    ELSE IF node.indeterminate THEN "indeterminate"
    ELSE "cleared"

(* the tri-state a directory should have, given its loaded children *)
ExpectedTriState(tree, d) ==
    LET kids == Range(tree[d].children) IN
    IF kids # {} /\ \A c \in kids : TriState(tree[c]) = "selected" THEN "selected"
    ELSE IF \A c \in kids : TriState(tree[c]) = "cleared" THEN "cleared"
    ELSE "indeterminate"

LoadedDirs == {d \in Dirs : InTree(workspaceTree, d)}

(* C1, as stated: after any sequence of checkbox toggles every directory's
   tri-state equals the aggregate of its loaded children, a directory with
   no loaded child counting as cleared. *)
C1_EveryDirectoryIsItsAggregate ==
    \A d \in LoadedDirs : TriState(workspaceTree[d]) = ExpectedTriState(workspaceTree, d)

(* C1, amended: after any sequence of checkbox toggles every directory with
   at least one loaded child has the tri-state of the aggregate of its loaded
   children, and a directory with no loaded child is selected or cleared (as
   last toggled), never indeterminate. *)
C1_LoadedDirectoryIsItsAggregate ==
    \A d \in LoadedDirs :
        IF workspaceTree[d].children # <<>>
        THEN TriState(workspaceTree[d]) = ExpectedTriState(workspaceTree, d)
        ELSE TriState(workspaceTree[d]) \in {"selected", "cleared"}

(* a toggle left a directory indeterminate below an indeterminate root,
   beside a selected sibling *)
C1_Witness ==
    /\ lastOp.op = "toggle"
    /\ TriState(workspaceTree["a"]) = "indeterminate"
    /\ TriState(workspaceTree[Root]) = "indeterminate"
    /\ TriState(workspaceTree["b"]) = "selected"
    /\ TriState(workspaceTree["a/c"]) = "selected"

(* C2: when children are attached to a directory that was selected (or
   cleared) before, every attached child is selected (or cleared) right
   after, whatever the state of the directory's ancestors and siblings. *)
C2_AttachedChildrenInherit ==
    (lastOp.op = "children" /\ lastOp.wasInTree /\ ~lastOp.wasIndeterminate)
        => \A c \in Range(workspaceTree[lastOp.path].children) :
               workspaceTree[c].selected = lastOp.wasSelected

(* C3: after a full refresh the selection set is exactly the set of paths of
   the file nodes whose selected flag is true. *)
C3_RefreshAgrees ==
    lastOp.op = "refresh"
        => selectedPaths = {p \in Files : InTree(workspaceTree, p) /\ workspaceTree[p].selected}

(***************************************************************************)
(*                      Properties of the export run                       *)
(***************************************************************************)
Returned == run.pc \in {"generated", "sent"}

SectionPaths(kind) ==
    {run.sections[i].path : i \in {j \in 1..Len(run.sections) : run.sections[j].kind = kind}}

PassesPatterns(p, cfg) ==
    /\ ~matchesPatterns(p, cfg.excludePatterns)
    /\ cfg.includePatterns # <<>> => matchesPatterns(p, cfg.includePatterns)

(* C4: a selected path that matches an exclude pattern, or that matches no
   include pattern when there are any, is never an eligible file: it gets no
   file section and is not among the files counted. *)
C4_PatternsDecideEligibility ==
    \A p \in Range(run.validFiles) \cup SectionPaths("file") : PassesPatterns(p, run.cfg)

(* C5: the progress values of one run never decrease and lie in [0,100]. *)
C5_ProgressMonotone ==
    /\ \A i \in 1..Len(run.progress) :
        Leq(Pct(0), run.progress[i]) /\ Leq(run.progress[i], Pct(100))
    /\ \A i \in 1..(Len(run.progress) - 1) : Leq(run.progress[i], run.progress[i + 1])

(* C6: when a run has ended (generateExport returned, or the handler sent its
   terminal message), the last progress value reported is exactly 100. *)
C6_LastProgressIs100 ==
    (Returned /\ run.progress # <<>>)
        => LET last == run.progress[Len(run.progress)] IN Leq(last, Pct(100)) /\ Leq(Pct(100), last)

Declined ==
    \E i \in 1..Len(run.prompts) :
        run.prompts[i].prompt = "confirmLargeContent" /\ run.prompts[i].answer # "Continue"

(* C7: a run whose large-content confirmation was declined ends without a
   failure result, without an error message to the webview and without an
   error notification. *)
C7_DeclineIsNotFailure ==
    (Declined /\ run.pc = "sent")
        => /\ ~(run.clipboardResult.defined /\ ~run.clipboardResult.success)
           /\ \A i \in 1..Len(run.toWebview) :
                /\ run.toWebview[i].type # "error"
                /\ run.toWebview[i].type = "exportComplete"
                      => run.toWebview[i].clipboardSuccess # "false"
           /\ \A i \in 1..Len(run.hostNotes) : run.hostNotes[i].kind # "error"
           /\ \A i \in 1..Len(run.webNotes) : run.webNotes[i].type # "error"

ClipboardWrites(truncated) ==
    {i \in 1..Len(run.writes) :
        run.writes[i].sink = "clipboard" /\ run.writes[i].truncated = truncated}

PrimaryFailed == \E i \in ClipboardWrites(FALSE) : ~run.writes[i].ok

PrimarySucceeded == \E i \in ClipboardWrites(FALSE) : run.writes[i].ok

(* C8: after a failed primary write, content longer than the 1 MiB threshold
   gets exactly one truncated retry and content at or below it gets none; a
   primary write that succeeds is never followed by a truncated write. *)
C8_TruncatedRetry ==
    /\ Cardinality(ClipboardWrites(FALSE)) <= 1
    /\ Cardinality(ClipboardWrites(TRUE)) <= 1
    /\ (PrimaryFailed /\ run.contentLen > ClipboardThreshold /\ run.pc # "truncated")
          => Cardinality(ClipboardWrites(TRUE)) = 1
    /\ ClipboardWrites(TRUE) # {} => PrimaryFailed /\ run.contentLen > ClipboardThreshold
    /\ run.contentLen <= ClipboardThreshold => ClipboardWrites(TRUE) = {}
    /\ PrimarySucceeded => ClipboardWrites(TRUE) = {}

(* the primary write of content one over the threshold failed and the one
   truncated retry went through *)
C8_Witness ==
    /\ run.contentLen = ClipboardThreshold + 1
    /\ PrimaryFailed
    /\ \E i \in ClipboardWrites(TRUE) : run.writes[i].ok
    /\ run.pc = "sent"

Answered(prompt, answer) ==
    \E i \in 1..Len(run.prompts) :
        run.prompts[i].prompt = prompt /\ run.prompts[i].answer = answer

TruncatedFailed == \E i \in ClipboardWrites(TRUE) : ~run.writes[i].ok

FileWriteFailed ==
    \E i \in 1..Len(run.writes) : run.writes[i].sink = "file" /\ ~run.writes[i].ok

FallbacksExhausted ==
    /\ PrimaryFailed
    /\ run.contentLen > ClipboardThreshold => TruncatedFailed
    /\ \/ Answered("saveAsFile", "Cancel")
       \/ Answered("showSaveDialog", "undefined")
       \/ FileWriteFailed

CopyReturned ==
    /\ run.cfg.outputMethod = "clipboard"
    /\ run.pc \in {"report", "sent"}
    /\ run.writes # <<>>

(* C9: copyToClipboard reports failure exactly when the primary write failed,
   the truncated retry (when applicable) failed, and the file fallback was
   declined, its destination prompt dismissed or its write failed; on every
   other path it reports success. *)
C9_FailureOnlyWhenExhausted ==
    CopyReturned
        => /\ run.clipboardResult.defined
           /\ ~run.clipboardResult.success <=> FallbacksExhausted

(* copyToClipboard failed after both clipboard writes failed and the user
   dismissed the destination prompt of the file fallback *)
C9_Witness ==
    /\ CopyReturned
    /\ ~run.clipboardResult.success
    /\ TruncatedFailed
    /\ Answered("showSaveDialog", "undefined")

ThroughFallback ==
    /\ CopyReturned
    /\ run.clipboardResult.success
    /\ ~PrimarySucceeded

(* C10: a clipboard export that succeeded only through a fallback is reported
   as success with the fallback qualifier to the caller and in what the user
   is shown, never as plain success; a primary success never carries the
   qualifier. *)
C10_FallbackIsQualified ==
    /\ ThroughFallback
          => /\ run.clipboardResult.fallbackUsed
             /\ \A i \in 1..Len(run.hostNotes) :
                    run.hostNotes[i].text # "Export completed successfully!"
             /\ \A i \in 1..Len(run.webNotes) :
                    run.webNotes[i].text # "Successfully copied files to clipboard!"
    /\ (CopyReturned /\ PrimarySucceeded) => ~run.clipboardResult.fallbackUsed

SectionIndexes(kind) == {i \in 1..Len(run.sections) : run.sections[i].kind = kind}

RECURSIVE SizeSum(_)
SizeSum(sections) ==
    IF sections = <<>> THEN 0
    ELSE (IF Head(sections).kind = "file" THEN Head(sections).size ELSE 0)
         + SizeSum(Tail(sections))

GenerateExportReturned == run.pc \notin {"idle", "structure", "filter", "files"}

(* C11: a file whose stat or read failed gets an error block and no file
   section and is not counted in totalFiles or totalSize (which count exactly
   the file sections); every file before the current one has its section, so
   the files after a failed one are processed too, and generateExport returns
   only after the last file, with a footer carrying the counts. *)
C11_ReadErrorIsLocal ==
    /\ run.totalFiles = Cardinality(SectionIndexes("file"))
    /\ run.totalSize = SizeSum(run.sections)
    /\ SectionPaths("error") \cap SectionPaths("file") = {}
    /\ \A i \in 1..run.k :
          run.validFiles[i] \in SectionPaths("file") \cup SectionPaths("error")
    /\ Cardinality(SectionIndexes("file")) + Cardinality(SectionIndexes("error")) = run.k
    /\ GenerateExportReturned => run.k = Len(run.validFiles)
    /\ (GenerateExportReturned /\ run.sections # <<>>)
          => LET footer == run.sections[Len(run.sections)] IN
             /\ footer.kind = "footer"
             /\ footer.totalFiles = Cardinality(SectionIndexes("file"))
             /\ footer.totalSize = SizeSum(run.sections)

(* the first of two files could not be read, the second was exported, and
   the run reached its terminal message *)
C11_Witness ==
    /\ run.pc = "sent"
    /\ Len(run.validFiles) = 2
    /\ run.validFiles[1] \in SectionPaths("error")
    /\ run.validFiles[2] \in SectionPaths("file")
    /\ run.totalFiles = 1
    /\ \E i \in 1..Len(run.hostCalls) :
          run.hostCalls[i] = [call |-> "readFile", path |-> run.validFiles[1]]

TruncatedCount(p) ==
    Cardinality({j \in 1..Len(run.truncatedFiles) : run.truncatedFiles[j] = p})

(* C12: a file that was read is truncated exactly when its size exceeds
   maxFileSize; a truncated file's body ends with the marker and its path is
   in truncatedFiles exactly once; a file at or below the limit is left whole
   and is not in truncatedFiles; truncatedFiles names nothing else. *)
C12_TruncationAtLimit ==
    /\ \A i \in SectionIndexes("file") :
          LET section == run.sections[i] IN
          /\ section.truncated <=> section.size > run.cfg.maxFileSize
          /\ section.truncated
                => section.endsWithMarker /\ TruncatedCount(section.path) = 1
          /\ ~section.truncated
                => ~section.endsWithMarker /\ TruncatedCount(section.path) = 0
    /\ \A j \in 1..Len(run.truncatedFiles) :
          \E i \in SectionIndexes("file") :
              run.sections[i].path = run.truncatedFiles[j] /\ run.sections[i].truncated

(* one file one byte over the limit was truncated, one exactly at the limit
   was not *)
C12_Witness ==
    /\ run.pc = "sent"
    /\ \E i, j \in SectionIndexes("file") :
          /\ run.sections[i].size = run.cfg.maxFileSize + 1
          /\ run.sections[i].truncated
          /\ run.truncatedFiles = <<run.sections[i].path>>
          /\ run.sections[j].size = run.cfg.maxFileSize
          /\ ~run.sections[j].truncated

(* a path whose last component ends in one of the binary extensions *)
BinaryByExtension(p) ==
    \E ext \in BINARY_EXTENSIONS :
        /\ Len(BaseName(p)) > Len(ext)
        /\ SubSeq(p, Len(p) - Len(ext) + 1, Len(p)) = ext

StructurePaths ==
    UNION {Range(run.sections[i].paths) : i \in SectionIndexes("structure")}

(* C13: a selected path that is binary by extension is not among the valid
   files, has no file section and no error block, is not in the directory
   structure block nor in truncatedFiles, and totalFiles counts at most the
   selected paths that are not binary. *)
C13_BinaryNeverMentioned ==
    /\ \A p \in Range(run.selected) :
          BinaryByExtension(p)
            => /\ p \notin Range(run.validFiles)
               /\ p \notin SectionPaths("file") \cup SectionPaths("error")
               /\ p \notin StructurePaths
               /\ p \notin Range(run.truncatedFiles)
    /\ run.totalFiles
          <= Cardinality({p \in Range(run.selected) : ~BinaryByExtension(p)})

(* a text file and an image were selected, the structure block was asked
   for, and the run ended with one file counted *)
C13_Witness ==
    /\ run.pc = "sent"
    /\ run.selected = <<P_ts, P_png>>
    /\ run.cfg.includeDirectoryStructure
    /\ SectionIndexes("structure") # {}
    /\ run.totalFiles = 1

(* a configuration as the specification allows it *)
ValidRequest(config) ==
    /\ Includes({"txt", "md"}, config.format)
    /\ Includes({"file", "clipboard"}, config.outputMethod)
    /\ \A v \in {config.maxFileSize, config.truncateThreshold} :
          v.t = "undefined" \/ (v.t = "number" /\ v.n > 0)
    /\ \A v \in {config.excludePatterns, config.includePatterns} :
          v.t \in {"undefined", "array"}

(* C14: a request whose configuration is invalid ends in an error message,
   with no host call, no progress report, no output and no sink write. *)
C14_InvalidRejectedFirst ==
    (run.pc # "idle" /\ ~ValidRequest(run.request))
        => /\ run.pc = "sent"
           /\ run.hostCalls = <<>>
           /\ run.progress = <<>>
           /\ run.sections = <<>>
           /\ run.writes = <<>>
           /\ \E i \in 1..Len(run.toWebview) : run.toWebview[i].type = "error"

(***************************************************************************)
(*                   Properties of the service functions                   *)
(***************************************************************************)
(* glob matching as specified: '**' any sequence, '*' any sequence without
   '/', '?' one character other than '/', anything else itself *)
RECURSIVE GlobMatches(_, _)
GlobMatches(pattern, path) ==
    IF pattern = <<>> THEN path = <<>>
    ELSE IF Len(pattern) >= 2 /\ pattern[1] = "*" /\ pattern[2] = "*"
    THEN \E k \in 0..Len(path) :
            GlobMatches(SubSeq(pattern, 3, Len(pattern)), SubSeq(path, k + 1, Len(path)))
    ELSE IF pattern[1] = "*"
    THEN \E k \in 0..Len(path) :
            /\ \A i \in 1..k : path[i] # "/"
            /\ GlobMatches(Tail(pattern), SubSeq(path, k + 1, Len(path)))
    ELSE IF pattern[1] = "?"
    THEN path # <<>> /\ path[1] # "/" /\ GlobMatches(Tail(pattern), Tail(path))
    ELSE path # <<>> /\ path[1] = pattern[1] /\ GlobMatches(Tail(pattern), Tail(path))

RECURSIVE NodePaths(_)
NodePaths(nodes) ==
    UNION {{nodes[i].path} \cup NodePaths(nodes[i].children) : i \in 1..Len(nodes)}

(* C15: matchesPattern answers as the glob is specified, '**' matching any
   sequence of characters, the empty one and those with '/' included; and no
   node filterFiles keeps, at any depth, has a path that an exclude pattern
   matches. *)
C15_DoubleStarCrossesSeparators ==
    /\ call.fn = "matchesPattern"
          => (call.result <=> GlobMatches(call.pattern, call.filePath))
    /\ call.fn = "filterFiles"
          => \A p \in NodePaths(call.result) :
                \A i \in 1..Len(call.excludePatterns) :
                    ~GlobMatches(call.excludePatterns[i], p)

RECURSIVE Segments(_)
Segments(p) ==
    IF p = <<>> THEN {}
    ELSE IF Parent(p) = <<>> THEN {p}
    ELSE {BaseName(p)} \cup Segments(Parent(p))

(* a name of the denylist: the directory 'out', a file '*.log' *)
NoiseName(name) ==
    \/ name = N_out
    \/ Len(name) >= 4 /\ SubSeq(name, Len(name) - 3, Len(name)) = <<".", "l", "o", "g">>

(* C16: no node of the initial tree or of an on-demand child load is a
   denylisted directory or file, or lies beneath one, at any depth. *)
C16_NoNoiseEnumerated ==
    call.fn \in {"getWorkspaceTree", "loadDirectoryChildren"}
        => \A p \in call.result : \A name \in Segments(p) : ~NoiseName(name)

OnlyFormat(config) ==
    /\ Includes({"txt", "md"}, config.format)
    /\ \A v \in {config.outputMethod, config.includeDirectoryStructure, config.maxFileSize,
                  config.excludePatterns, config.includePatterns, config.truncateThreshold} :
          v = Undefined

(* C17: validateExportConfiguration of a configuration that has a valid
   format and nothing else returns that format and the defaults:
   includeDirectoryStructure true, maxFileSize 1 MiB, no patterns. *)
C17_DefaultsForMissing ==
    (call.fn = "validateExportConfiguration" /\ OnlyFormat(call.config))
        => /\ ~call.result.threw
           /\ call.result.value.format = call.config.format.s
           /\ call.result.value.includeDirectoryStructure = TRUE
           /\ call.result.value.maxFileSize = 1024 * 1024
           /\ call.result.value.excludePatterns = <<>>
           /\ call.result.value.includePatterns = <<>>

(* C18: whatever the configuration and the settings, the configuration
   validateAndMigrateConfiguration returns passes validateExportConfiguration
   and is a configuration as specified: known format and output method,
   positive sizes. *)
C18_MigrationYieldsValid ==
    call.fn = "validateAndMigrateConfiguration"
        => /\ ~validateExportConfiguration(getCurrentConfiguration(call.result)).threw
           /\ call.result.format \in {"txt", "md"}
           /\ call.result.outputMethod \in {"file", "clipboard"}
           /\ call.result.maxFileSize > 0
           /\ call.result.truncateThreshold > 0

(* the configuration had no format, so that the migration could not repair
   it, and the settings were invalid too: the fallback was returned *)
C18_Witness ==
    /\ call.fn = "validateAndMigrateConfiguration"
    /\ call.config.format = Undefined
    /\ call.config.maxFileSize = Num(-100)
    /\ call.settings.maxFileSize = Num(0)
    /\ call.result = getFallbackConfiguration

PathFunctions == {"getFileContent", "getFileStats", "isDirectory"}

(* empty, or with '..', or with '//', or starting with '/' *)
BadPath(path) ==
    \/ path = <<>>
    \/ \E i \in 1..(Len(path) - 1) : path[i] = "." /\ path[i + 1] = "."
    \/ \E i \in 1..(Len(path) - 1) : path[i] = "/" /\ path[i + 1] = "/"
    \/ path # <<>> /\ path[1] = "/"

Refused ==
    /\ call.result.hostCalls = <<>>
    /\ call.result.outcome = (IF call.fn = "isDirectory" THEN "false" ELSE "error")

(* C19, as stated: for a path that is empty, contains '..' or '//' or starts
   with '/', the three functions ask the host nothing; content and stats fail
   and isDirectory answers false. *)
C19_BadPathNeverReachesHost ==
    (call.fn \in PathFunctions /\ BadPath(call.filePath)) => Refused

(* what is left of the path after a leading '<folder name>/' *)
WorkspaceRelative(name, path) ==
    IF Len(path) > Len(name) /\ SubSeq(path, 1, Len(name)) = name /\ path[Len(name) + 1] = "/"
    THEN SubSeq(path, Len(name) + 2, Len(path))
    ELSE path

(* C19, amended: the test is made on the path relative to the workspace
   folder (a leading '<folder name>/' removed).  If that is empty, contains
   '..' or '//' or starts with '/', the host is asked nothing, content and
   stats fail and isDirectory answers false.  The folder name itself is
   answered without the test: no content, isDirectory true, the stats of the
   folder.  No path the host is asked about, always joined to the folder's
   URI, has a '..' or a '//' in it, so nothing outside the workspace folder
   is read. *)
C19_BadRelativePathNeverReachesHost ==
    call.fn \in PathFunctions
        => /\ (call.filePath # call.name
                  /\ BadPath(WorkspaceRelative(call.name, call.filePath))) => Refused
           /\ call.filePath = call.name
                => /\ call.fn = "getFileContent" => Refused
                   /\ call.fn = "isDirectory"
                        => call.result.hostCalls = <<>> /\ call.result.outcome = "true"
                   /\ call.fn = "getFileStats"
                        => call.result.hostCalls = <<[call |-> "stat", path |-> <<>>]>>
           /\ \A i \in 1..Len(call.result.hostCalls) :
                LET asked == call.result.hostCalls[i].path IN
                \A j \in 1..(Len(asked) - 1) :
                    /\ ~(asked[j] = "." /\ asked[j + 1] = ".")
                    /\ ~(asked[j] = "/" /\ asked[j + 1] = "/")

(* the content of 'w../w' was asked for in the folder 'w..' and the host was
   asked for 'w' *)
C19_Witness ==
    /\ call.fn = "getFileContent"
    /\ call.name = <<"w", ".", ".">>
    /\ call.filePath = <<"w", ".", ".", "/", "w">>
    /\ call.result.hostCalls = <<[call |-> "readFile", path |-> <<"w">>]>>
    /\ call.result.outcome = "content"

(***************************************************************************)
(*                        Properties of a session                          *)
(***************************************************************************)
ExportInProgress == run.pc \notin {"idle", "sent"}

(* C20: while an export run is in progress, from the generateExport request
   to its terminal message, no step changes the tree or the selection set. *)
C20_NoMutationDuringExport ==
    [][ExportInProgress => UNCHANGED <<workspaceTree, selectedPaths>>]_vars

VeryLargeClipboardRun ==
    /\ run.cfg.outputMethod = "clipboard"
    /\ run.contentLen > VeryLargeMB * MegaByte

(* C21: in a clipboard export whose content exceeds the 10 MiB threshold no
   clipboard write and no file write is attempted before the user has answered
   the confirmation prompt: whenever a write has been attempted, the first
   prompt answered was the confirmation and its answer was to continue.  If
   the user declined, no write is attempted in that run. *)
C21_NoWriteBeforeConfirmation ==
    VeryLargeClipboardRun
        => /\ run.writes # <<>>
                => /\ run.prompts # <<>>
                   /\ run.prompts[1] = [prompt |-> "confirmLargeContent", answer |-> "Continue"]
           /\ Declined => run.writes = <<>>

(* the user declined the warning of a very large clipboard export and the
   run ended without a write *)
C21_Witness ==
    /\ VeryLargeClipboardRun
    /\ Answered("confirmLargeContent", "Cancel")
    /\ run.pc = "sent"
    /\ run.writes = <<>>

(* C26: when the user declines the large-content warning in
   copyToClipboardWithProgress, the progress callback is never invoked for
   that operation. *)
C26_DeclineSilencesCallback == Declined => run.callback = <<>>

(* the text '[... Content truncated for clipboard compatibility ...]' *)
TruncationMarker == 55

(* C27: the content written by the truncated clipboard retry has length
   exactly the 1 MiB threshold plus the length of the truncation marker text
   (its first 1 MiB characters being those of the original content). *)
C27_TruncatedLength ==
    \A i \in ClipboardWrites(TRUE) : run.writes[i].len = ClipboardThreshold + TruncationMarker

(* C22: for any tree state and any path of the tree, toggling the path to
   selected = true twice in a row yields the same tree and the same selection
   set as toggling it once, and likewise for selected = false. *)
C22_ToggleIdempotent ==
    \A path \in Paths, isChecked \in BOOLEAN :
        InTree(workspaceTree, path)
            => LET once == handleTreeNodeChange(State, path, isChecked)
                   twice == handleTreeNodeChange(once, path, isChecked)
               IN twice.tree = once.tree /\ twice.sel = once.sel

(* a directory was checked while the root stayed indeterminate, and checking
   it again changes nothing *)
C22_Witness ==
    /\ lastOp.op = "toggle"
    /\ lastOp.path = "a"
    /\ lastOp.checked
    /\ TriState(workspaceTree[Root]) = "indeterminate"
    /\ handleTreeNodeChange(State, "a", TRUE).tree = workspaceTree
    /\ handleTreeNodeChange(State, "a", TRUE).sel = selectedPaths
    /\ handleTreeNodeChange(State, "a", FALSE).tree # workspaceTree

(* C28: in txt format no framing emitted by the pipeline (header, structure
   block, per-file framing, inline error blocks, footer) holds a markdown
   code fence or a '##' heading, for every includeDirectoryStructure
   setting. *)
C28_PlainTextHasNoMarkdown ==
    run.cfg.format = "txt"
        => \A i \in 1..Len(run.sections) :
               ~run.sections[i].framing.heading /\ ~run.sections[i].framing.fence

Position(list, x) == CHOOSE k \in 1..Len(list) : list[k] = x

(* the elements of sub are elements of list, in the order they have there *)
InOrderOf(sub, list) ==
    /\ \A i \in 1..Len(sub) : sub[i] \in Range(list)
    /\ \A i, j \in 1..Len(sub) : i < j => Position(list, sub[i]) < Position(list, sub[j])

IsFileOrError(section) == section.kind \in {"file", "error"}

ProcessedPaths ==
    LET body == SelectSeq(run.sections, IsFileOrError) IN
    [i \in 1..Len(body) |-> body[i].path]

(* C24: within one export run the file sections and the inline error blocks
   appear in the same relative order as their paths appear in the
   selectedPaths list of the request, and truncatedFiles lists its paths in
   that order too. *)
C24_SectionsFollowSelection ==
    /\ InOrderOf(ProcessedPaths, run.selected)
    /\ InOrderOf(run.truncatedFiles, run.selected)
    /\ \A i \in SectionIndexes("footer") :
           InOrderOf(run.sections[i].truncatedFiles, run.selected)

(* both files of a selection that is not in alphabetical order were read and
   truncated, and the footer is written *)
C24_Witness ==
    /\ run.selected = <<P_ts, P_log>>
    /\ ProcessedPaths = <<P_ts, P_log>>
    /\ run.truncatedFiles = <<P_ts, P_log>>
    /\ SectionIndexes("footer") # {}

(* C29: directories are never expanded by the export: a directory path in
   selectedPaths contributes no file section, no error block, no entry of the
   structure block and no count, and a file beneath it is exported only if
   its own path is in selectedPaths. *)
C29_DirectoriesNotExpanded ==
    /\ \A p \in Range(ProcessedPaths) \cup StructurePaths \cup Range(run.validFiles) :
           p \in Range(run.selected) /\ ~HostIsDirectory(p)
    /\ run.totalFiles <= Cardinality({p \in Range(run.selected) : ~HostIsDirectory(p)})

(* a directory and a file outside it were selected, the run ended with the
   one file counted and the file in the directory not mentioned *)
C29_Witness ==
    /\ run.selected = <<P_dir, P_ts>>
    /\ run.cfg.includeDirectoryStructure
    /\ ProcessedPaths = <<P_ts>>
    /\ SectionIndexes("footer") # {}
    /\ run.totalFiles = 1

(***************************************************************************)
(*               Properties of the webview and the extension               *)
(***************************************************************************)
(* C23: in every reachable state of the webview's tree and of the
   extension's tree no node has selected = true and indeterminate = true at
   the same time, after any sequence of toggles, child loads and
   updateSelection messages. *)
C23_TriStateExclusive ==
    \A p \in Paths :
        /\ TriState(workspaceTree[p]) # "both"
        /\ TriState(provider.workspaceTree[p]) # "both"

(* the extension has handled every message of the toggles: in both trees the
   file is selected and the root indeterminate *)
C23_Witness ==
    /\ provider.inbox = <<>>
    /\ lastOp.op = "updateSelection"
    /\ TriState(workspaceTree["a/x"]) = "selected"
    /\ TriState(provider.workspaceTree["a/x"]) = "selected"
    /\ TriState(workspaceTree[Root]) = "indeterminate"
    /\ TriState(provider.workspaceTree[Root]) = "indeterminate"

(* C25: selections are remembered between sessions: after the next
   activation the selected paths persisted by saveSessionState are the
   selection in effect, presented in the tree and sent with the next export
   request, without the user selecting them again. *)
C25_SelectionsRemembered ==
    lastOp.op = "activate"
        => /\ selectedPaths = provider.workspaceState.selectedPaths
           /\ \A p \in provider.workspaceState.selectedPaths : workspaceTree[p].selected

(* a child-load response for a directory that is not in the webview's tree *)
C30_StaleChildren ==
    \A path \in Dirs :
        ~InTree(workspaceTree, path)
            => LET st == handleDirectoryChildrenResponse(State, path)
               IN st.tree = workspaceTree /\ st.sel = selectedPaths

(* an updateSelection message for a path that is not in the extension's tree *)
C30_StaleSelection ==
    (provider.inbox # <<>> /\ ~InTree(provider.workspaceTree, Head(provider.inbox).path))
        => LET p == handleUpdateSelection(provider, Head(provider.inbox))
           IN p.workspaceTree = provider.workspaceTree
              /\ p.selectedPaths = provider.selectedPaths

(* a change event for a path that is not in the webview's tree *)
C30_StaleToggle ==
    \A path \in Paths, isChecked \in BOOLEAN :
        ~InTree(workspaceTree, path)
            => LET st == handleTreeNodeChange(State, path, isChecked)
               IN st.tree = workspaceTree /\ st.sel = selectedPaths

(* C30: an operation addressed to a path that is not in the current tree (a
   selection toggle, an updateSelection message, a child-load response for a
   directory removed by a refresh) is a no-op: it leaves every node's flags
   and the selection set unchanged. *)
C30_StalePathIsNoOp == C30_StaleToggle /\ C30_StaleSelection /\ C30_StaleChildren

(***************************************************************************)
(*                      Accounting and terminal messages                   *)
(***************************************************************************)
(* C39: when generateExport has returned, every eligible file (every entry of
   validFiles) has exactly one block, a file section counted in totalFiles or
   an inline error block, so totalFiles plus the number of error blocks is
   the number of eligible files; every path in truncatedFiles is the path of
   a counted file section, and truncatedFiles is no longer than totalFiles. *)
C39_ExportAccounting ==
    GenerateExportReturned =>
        /\ run.totalFiles + Cardinality(SectionIndexes("error")) = Len(run.validFiles)
        /\ ProcessedPaths = run.validFiles
        /\ run.totalFiles = Cardinality(SectionIndexes("file"))
        /\ \A j \in 1..Len(run.truncatedFiles) :
              run.truncatedFiles[j] \in SectionPaths("file")
        /\ Len(run.truncatedFiles) <= run.totalFiles

(* generateExport returned for two eligible files: one was counted and
   truncated, the other got an error block *)
C39_Witness ==
    /\ GenerateExportReturned
    /\ Len(run.validFiles) = 2
    /\ run.totalFiles = 1
    /\ Cardinality(SectionIndexes("error")) = 1
    /\ Len(run.truncatedFiles) = 1

TerminalMessages ==
    {i \in 1..Len(run.toWebview) : run.toWebview[i].type \in {"exportComplete", "error"}}

(* C35: a generateExport request that has been answered got exactly one
   terminal message, exportComplete or error, and a request still being
   worked on has got none. *)
C35_OneTerminalMessage ==
    /\ run.pc = "sent" => Cardinality(TerminalMessages) = 1
    /\ run.pc \notin {"idle", "sent"} => TerminalMessages = {}

(***************************************************************************)
(* The export with the scheduling it runs under: every await of the        *)
(* extension's handler returns (host calls, prompts), and the webview's    *)
(* event loop takes every message posted to it.                            *)
(***************************************************************************)
ExportSteps ==
    \/ GenerateStructure \/ FilterFiles \/ ProcessFile \/ Finalize
    \/ Dispatch \/ ConfirmLarge \/ PrimaryWrite \/ TruncatedWrite \/ OfferSave
    \/ ChooseDestination \/ FallbackWrite \/ ReportClipboard \/ SaveDialog \/ ExportWrite

NextExportLive == StartExport \/ ExportSteps \/ WebviewReceive

SpecExportLive ==
    /\ Init
    /\ [][NextExportLive]_vars
    /\ WF_vars(ExportSteps)
    /\ WF_vars(WebviewReceive)

Answered_Webview ==
    /\ run.pc = "sent"
    /\ TerminalMessages # {}
    /\ run.handled = Len(run.toWebview)
    /\ ~run.isExporting

(* C34: a generateExport request the webview has posted (isExporting set) is
   eventually answered: the extension reaches its terminal message,
   exportComplete or error, the webview handles it, and isExporting is false
   again. *)
C34_ExportEventuallyAnswered == run.isExporting ~> Answered_Webview

(* a clipboard export that went through the large-content warning and the
   truncated retry has been answered and the flag is down *)
C34_Witness ==
    /\ Answered_Webview
    /\ run.posted # <<>>
    /\ run.cfg.outputMethod = "clipboard"
    /\ \E i \in 1..Len(run.writes) : run.writes[i].truncated

(* C33: no generateExport message is posted while isExporting is true, i.e.
   while an earlier request has not got its terminal message. *)
C33_OneExportAtATime ==
    \A i \in 1..Len(run.posted) : ~run.posted[i].isExporting

(***************************************************************************)
(*                    Child loads, selectAll, deselectAll                  *)
(***************************************************************************)
(* C36: a directoryChildrenResponse for a directory that already has a
   populated child list leaves the list as it is, and leaves every child's
   selected and indeterminate flags and its membership of selectedPaths as
   the toggles made them. *)
C36_LateResponseKeepsSelection ==
    \A path \in Dirs :
        (InTree(workspaceTree, path) /\ workspaceTree[path].children # <<>>)
            => LET st == handleDirectoryChildrenResponse(State, path) IN
               /\ st.tree[path].children = workspaceTree[path].children
               /\ \A child \in Range(workspaceTree[path].children) :
                     /\ st.tree[child].selected = workspaceTree[child].selected
                     /\ st.tree[child].indeterminate = workspaceTree[child].indeterminate
                     /\ child \in st.sel <=> child \in selectedPaths

TreeAgreesWithSet ==
    \A p \in Paths :
        InTree(workspaceTree, p) => (p \in selectedPaths <=> workspaceTree[p].selected)

(* C37: when selectAll or deselectAll has run, a path is in selectedPaths
   exactly if its node's selected flag is true, and every directory that has
   loaded children shows the aggregate of them. *)
C37_SelectAllKeepsTreeAndSetTogether ==
    lastOp.op \in {"selectAll", "deselectAll"} =>
        /\ TreeAgreesWithSet
        /\ \A d \in LoadedDirs :
              workspaceTree[d].children # <<>>
                  => TriState(workspaceTree[d]) = ExpectedTriState(workspaceTree, d)

(* C38: when the extension has handled every updateSelection message the
   webview posted, its selectedPaths is the webview's selectedPaths. *)
C38_ExtensionSetIsWebviewSet ==
    provider.inbox = <<>> => provider.selectedPaths = selectedPaths

(***************************************************************************)
(*                     Directories without loaded children                 *)
(***************************************************************************)
ChildlessDirs == {d \in LoadedDirs : workspaceTree[d].children = <<>>}

Cleared == [selected |-> FALSE, indeterminate |-> FALSE]

(* C31, as stated: the state recomputed from the child list of a directory
   with zero loaded children, an empty list, is the cleared state. *)
C31_EmptyAggregateIsCleared ==
    \A d \in ChildlessDirs : Aggregate(workspaceTree, workspaceTree[d].children) = Cleared

(* C31, amended: the recomputation is never made from an empty child list.
   Started from any node of the tree, updateParentSelection writes only
   directories that have a loaded child (the node it came from), so it
   leaves the flags and the set membership of every directory with zero
   loaded children as they were. *)
C31_ChildlessNeverRecomputed ==
    \A p \in Paths :
        InTree(workspaceTree, p)
            => LET st == updateParentSelection(State, p) IN
               /\ \A i \in 1..Len(st.out) :
                     workspaceTree[st.out[i].path].children # <<>>
               /\ \A d \in ChildlessDirs :
                     /\ st.tree[d] = workspaceTree[d]
                     /\ d \in st.sel <=> d \in selectedPaths

(* directory e, without children, was checked; a later toggle of its sibling
   a had the root recomputed from a, b and e, and e is still as checked *)
C31_Witness ==
    /\ lastOp.op = "toggle"
    /\ lastOp.path = "a"
    /\ "e" \in ChildlessDirs
    /\ workspaceTree["e"].selected
    /\ "e" \in selectedPaths
    /\ TriState(workspaceTree[Root]) = "indeterminate"

(***************************************************************************)
(*                          The content in chunks                          *)
(***************************************************************************)
(* C32: whatever the chunk-size limit, the content generateExport returns is
   the header, the structure block, the blocks of the files in order and the
   footer one after the other, what an accumulator without chunks gives. *)
C32_ChunkingIsConcatenation ==
    call.fn = "generateExport"
        => call.content
               = call.header \o call.structure \o JoinChunks(call.blocks) \o call.footer

(* a limit that put a chunk boundary between two blocks and kept others
   together: three chunks for five texts *)
C32_Witness ==
    /\ call.fn = "generateExport"
    /\ call.structure # NoText
    /\ Len(call.blocks) = 2
    /\ Len(call.contentChunks) = 3
    /\ call.limit > 0

====
